---- MODULE Spec2Model ----
(***************************************************************************)
(* ieee754-viewer: the tri-state lexical classifier ParseFloatingInput     *)
(* (src/domain/parseFloatingInput.ts).  A text is a sequence of one-       *)
(* character strings; the regular expressions of the source are evaluated  *)
(* as sets of match positions, construct by construct.                     *)
(***************************************************************************)
EXTENDS Integers, Sequences, FiniteSets, TLC

VARIABLES input, opts, result, precision, vm, number, f32, f64,
          moduleDefaults, calls,
          floatInput, doubleInput, floatOut, doubleOut, toExtension, toWebview

\* the module-level object defaultOptions and the calls made so far, each
\* with what it returned
callVars == <<moduleDefaults, calls>>

\* the webview panel: the texts of the two input boxes, what the two panes
\* show, and the messages on their way to the extension and to the webview
panelVars == <<floatInput, doubleInput, floatOut, doubleOut, toExtension, toWebview>>

\* the arguments and the results of the calls of the first specifications
callerVars == <<input, opts, result, precision, vm, number, f32, f64>>

vars == <<callerVars, callVars, panelVars>>

(* ------------------------------ bounds --------------------------------- *)

\* longest text enumerated character by character
MaxLen == 3

\* number of zeros after the leading 1 in the long pasted literals
LongZeros == 309

(* ---------------------------- characters ------------------------------- *)

Digit == {"0", "1", "2", "3", "4", "5", "6", "7", "8", "9"}

UpperLetters == <<"A", "B", "C", "D", "E", "F", "G", "H", "I", "J", "K", "L", "M",
                  "N", "O", "P", "Q", "R", "S", "T", "U", "V", "W", "X", "Y", "Z">>

LowerLetters == <<"a", "b", "c", "d", "e", "f", "g", "h", "i", "j", "k", "l", "m",
                  "n", "o", "p", "q", "r", "s", "t", "u", "v", "w", "x", "y", "z">>

Range(f) == {f[i] : i \in DOMAIN f}

Alpha == Range(UpperLetters) \cup Range(LowerLetters)

SignChar == {"+", "-"}

ExpChar == {"e", "E"}

\* the code points a string of TLA+ cannot hold, written by their names: one
\* such name is one character of a text
NamedSpace ==
  {"U+2000", "U+2001", "U+2002", "U+2003", "U+2004", "U+2005", "U+2006", "U+2007",
   "U+2008", "U+2009", "U+200A", "U+202F", "U+205F", "U+3000"}

NamedLineTerminator == {"U+2028", "U+2029"}

\* the characters "." of a regular expression does not match: LF, CR, LS, PS
LineTerminator == {"\n", "\r"} \cup NamedLineTerminator

\* the characters String.prototype.trim removes: the WhiteSpace of ECMAScript
\* (TAB, VT, FF, SP, NBSP, ZWNBSP and the other space separators: U+1680 and
\* the named ones) and its LineTerminator
WhiteSpace ==
  {"\t", "", "\f", " ", " ", "﻿", " "} \cup NamedSpace \cup LineTerminator

DigitVal(c) == CHOOSE v \in 0..9 : <<"0", "1", "2", "3", "4", "5", "6", "7", "8", "9">>[v + 1] = c

(* ------------------------- string primitives --------------------------- *)

\* String.prototype.startsWith
StartsWith(s, p) == Len(p) <= Len(s) /\ SubSeq(s, 1, Len(p)) = p

\* String.prototype.slice(from)
SliceFrom(s, from) == SubSeq(s, from + 1, Len(s))

ToLowerChar(c) ==
  IF \E i \in 1..26 : UpperLetters[i] = c
    THEN LowerLetters[CHOOSE i \in 1..26 : UpperLetters[i] = c]
    ELSE c

\* variant: the comparison text is not case-folded
ToLowerCase_Identity(s) == s

\* String.prototype.toLowerCase
ToLowerCase(s) == [i \in 1..Len(s) |-> ToLowerChar(s[i])]

RECURSIVE TrimStart(_)
TrimStart(s) ==
  IF Len(s) > 0 /\ s[1] \in WhiteSpace THEN TrimStart(Tail(s)) ELSE s

RECURSIVE TrimEnd(_)
TrimEnd(s) ==
  IF Len(s) > 0 /\ s[Len(s)] \in WhiteSpace THEN TrimEnd(SubSeq(s, 1, Len(s) - 1)) ELSE s

\* variant: only the leading whitespace is removed
Trim_StartOnly(s) == TrimStart(s)

\* String.prototype.trim
Trim(s) == TrimEnd(TrimStart(s))

(* ----------------------- regular expressions --------------------------- *)
(* A set S of positions holds the places where a match of the expression   *)
(* read so far may end; position Len(t) + 1 is the end of the text.        *)

Min(S) == CHOOSE x \in S : \A y \in S : x <= y

Max(S) == CHOOSE x \in S : \A y \in S : x >= y

\* the position after the run of characters of class C that starts at i
RunEnd(t, i, C) == Min({j \in i..Len(t) : t[j] \notin C} \cup {Len(t) + 1})

\* one character of class C
One(t, S, C) == {i + 1 : i \in {k \in S : k <= Len(t) /\ t[k] \in C}}

\* C?
Opt(t, S, C) == S \cup One(t, S, C)

\* C+
Plus(t, S, C) == UNION {(i + 1)..RunEnd(t, i, C) : i \in S}

\* C*
Star(t, S, C) == S \cup Plus(t, S, C)

\* $
AtEnd(t, S) == (Len(t) + 1) \in S

\* variant: (\d+(\.\d*)?), the alternative with a leading dot is missing
Mantissa_NoLeadingDot(t, S) ==
  LET d == Plus(t, S, Digit)
  IN  d \cup Star(t, One(t, d, {"."}), Digit)

\* (\d+(\.\d*)?|\.\d+)
Mantissa(t, S) ==
  LET d == Plus(t, S, Digit)
  IN  d \cup Star(t, One(t, d, {"."}), Digit) \cup Plus(t, One(t, S, {"."}), Digit)

\* variant: /^[+-]?[\d.]+[eE]$/
ExponentMarkerRe_AnyDots(t) ==
  AtEnd(t, One(t, Plus(t, Opt(t, {1}, SignChar), Digit \cup {"."}), ExpChar))

\* /^[+-]?(\d+(\.\d*)?|\.\d+)[eE]$/
ExponentMarkerRe(t) ==
  AtEnd(t, One(t, Mantissa(t, Opt(t, {1}, SignChar)), ExpChar))

\* /^[+-]?(\d+(\.\d*)?|\.\d+)[eE][+-]$/
ExponentSignRe(t) ==
  AtEnd(t, One(t, One(t, Mantissa(t, Opt(t, {1}, SignChar)), ExpChar), SignChar))

\* /^[+-]?(\d+(\.\d*)?|\.\d+)([eE][+-]?\d+)?$/
DecimalNumberRe(t) ==
  LET m == Mantissa(t, Opt(t, {1}, SignChar))
  IN  AtEnd(t, m \cup Plus(t, Opt(t, One(t, m, ExpChar), SignChar), Digit))

\* variant: /^[a-z]+$/
isAlphaOnly_LowerOnly(s) == AtEnd(s, Plus(s, {1}, Range(LowerLetters)))

\* /^[A-Za-z]+$/
isAlphaOnly(s) == AtEnd(s, Plus(s, {1}, Alpha))

(* ------------------------------ Number() ------------------------------- *)
(* The value of a decimal literal is kept as the exact decimal             *)
(* 0.d1 d2 ... dn * 10^exp10 (d1 and dn nonzero; no digits for zero), with *)
(* its sign, and is replaced by an infinity when the literal is at or      *)
(* above the overflow threshold of binary64.  The exponent is read exactly *)
(* up to the magnitude from which the double no longer depends on it.      *)

NaNValue == [cls |-> "NaN"]

InfinityValue(neg) == [cls |-> "Infinity", neg |-> neg]

\* variant: a zero keeps no sign
FiniteValue_UnsignedZero(neg, sig, exp10) ==
  [cls |-> "Finite", neg |-> neg /\ sig # <<>>, sig |-> sig, exp10 |-> exp10]

FiniteValue(neg, sig, exp10) == [cls |-> "Finite", neg |-> neg, sig |-> sig, exp10 |-> exp10]

\* the digits of 2^1024 - 2^970, the least real that rounds to Infinity
\* (0.d1 d2 ... * 10^309)
OverflowThreshold ==
    <<
       1, 7, 9, 7, 6, 9, 3, 1, 3, 4, 8, 6, 2, 3, 1, 5, 8, 0, 7, 9, 3, 7, 2, 8, 9, 7, 1, 4, 0, 5, 3, 0, 3, 4, 1, 5, 0, 7, 9, 9,
       3, 4, 1, 3, 2, 7, 1, 0, 0, 3, 7, 8, 2, 6, 9, 3, 6, 1, 7, 3, 7, 7, 8, 9, 8, 0, 4, 4, 4, 9, 6, 8, 2, 9, 2, 7, 6, 4, 7, 5,
       0, 9, 4, 6, 6, 4, 9, 0, 1, 7, 9, 7, 7, 5, 8, 7, 2, 0, 7, 0, 9, 6, 3, 3, 0, 2, 8, 6, 4, 1, 6, 6, 9, 2, 8, 8, 7, 9, 1, 0,
       9, 4, 6, 5, 5, 5, 5, 4, 7, 8, 5, 1, 9, 4, 0, 4, 0, 2, 6, 3, 0, 6, 5, 7, 4, 8, 8, 6, 7, 1, 5, 0, 5, 8, 2, 0, 6, 8, 1, 9,
       0, 8, 9, 0, 2, 0, 0, 0, 7, 0, 8, 3, 8, 3, 6, 7, 6, 2, 7, 3, 8, 5, 4, 8, 4, 5, 8, 1, 7, 7, 1, 1, 5, 3, 1, 7, 6, 4, 4, 7,
       5, 7, 3, 0, 2, 7, 0, 0, 6, 9, 8, 5, 5, 5, 7, 1, 3, 6, 6, 9, 5, 9, 6, 2, 2, 8, 4, 2, 9, 1, 4, 8, 1, 9, 8, 6, 0, 8, 3, 4,
       9, 3, 6, 4, 7, 5, 2, 9, 2, 7, 1, 9, 0, 7, 4, 1, 6, 8, 4, 4, 4, 3, 6, 5, 5, 1, 0, 7, 0, 4, 3, 4, 2, 7, 1, 1, 5, 5, 9, 6,
       9, 9, 5, 0, 8, 0, 9, 3, 0, 4, 2, 8, 8, 0, 1, 7, 7, 9, 0, 4, 1, 7, 4, 4, 9, 7, 7, 9, 2
    >>

\* the number of zeros before the first nonzero digit
LeadingZeros(ds) == Min({i \in 1..Len(ds) : ds[i] # 0} \cup {Len(ds) + 1}) - 1

\* the number of zeros after the last nonzero digit
TrailingZeros(ds) == Len(ds) - Max({i \in 1..Len(ds) : ds[i] # 0} \cup {0})

\* the value of a digit string, or limit when the value is above limit
RECURSIVE ClampedInt(_, _, _, _)
ClampedInt(ds, i, acc, limit) ==
  IF i > Len(ds) THEN acc
  ELSE LET n == acc * 10 + ds[i]
       IN  ClampedInt(ds, i + 1, IF n > limit THEN limit ELSE n, limit)

\* a >= b for digit strings read as 0.a1 a2 ... and 0.b1 b2 ...
RECURSIVE DigitsGeq(_, _, _)
DigitsGeq(a, b, i) ==
  IF i > Len(b) THEN TRUE
  ELSE LET x == IF i <= Len(a) THEN a[i] ELSE 0
       IN  IF x > b[i] THEN TRUE
           ELSE IF x < b[i] THEN FALSE
           ELSE DigitsGeq(a, b, i + 1)

\* Number(text) for a non-empty trimmed text: the value of a StrDecimalLiteral,
\* NaN for any other text (the forms Number() accepts besides the decimal
\* literal, such as "Infinity" or "0x1f", never pass the syntax check that
\* precedes the call)
Number(text) ==
  IF ~DecimalNumberRe(text) THEN NaNValue
  ELSE
    LET first    == IF text[1] \in SignChar THEN 2 ELSE 1
        neg      == text[1] = "-"
        intEnd   == RunEnd(text, first, Digit)
        hasDot   == intEnd <= Len(text) /\ text[intEnd] = "."
        fracFrom == IF hasDot THEN intEnd + 1 ELSE intEnd
        fracEnd  == RunEnd(text, fracFrom, Digit)
        hasExp   == fracEnd <= Len(text)
        expNeg   == hasExp /\ text[fracEnd + 1] = "-"
        expFrom  == IF hasExp /\ text[fracEnd + 1] \in SignChar THEN fracEnd + 2 ELSE fracEnd + 1
        \* an exponent of this magnitude or more moves any mantissa of the
        \* text above the overflow threshold of binary64 or below half its
        \* least subnormal, so the double is the same for all of them
        expLimit == Len(text) + 324
        expAbs   == IF hasExp
                      THEN ClampedInt([i \in 1..(Len(text) - expFrom + 1) |-> DigitVal(text[expFrom + i - 1])],
                                      1, 0, expLimit)
                      ELSE 0
        expVal   == IF expNeg THEN 0 - expAbs ELSE expAbs
        nInt     == intEnd - first
        nFrac    == fracEnd - fracFrom
        ds       == [i \in 1..(nInt + nFrac) |->
                       DigitVal(IF i <= nInt THEN text[first + i - 1] ELSE text[fracFrom + i - nInt - 1])]
        lz       == LeadingZeros(ds)
        tz       == TrailingZeros(ds)
        sig      == SubSeq(ds, lz + 1, Len(ds) - tz)
        exp10    == nInt - lz + expVal
    IN  IF lz = Len(ds) THEN FiniteValue(neg, <<>>, 0)
        ELSE IF exp10 > 309 \/ (exp10 = 309 /\ DigitsGeq(sig, OverflowThreshold, 1))
          THEN InfinityValue(neg)
        ELSE FiniteValue(neg, sig, exp10)

\* Number.isNaN
IsNaN(v) == v.cls = "NaN"

\* variant: !Number.isNaN(v) in place of Number.isFinite(v)
IsFinite_NotNaN(v) == v.cls # "NaN"

\* Number.isFinite
IsFinite(v) == v.cls = "Finite"

(* ------------------------ ParseFloatingInput --------------------------- *)

OptionNames == {"allowLeadingPlus", "allowInfinitySynonyms", "allowNaN", "caseInsensitiveSpecials"}

defaultOptions ==
  [allowLeadingPlus |-> TRUE, allowInfinitySynonyms |-> TRUE,
   allowNaN |-> TRUE, caseInsensitiveSpecials |-> TRUE]

\* the merged options { ...defaultOptions, ...opts }
ParseOptions == [OptionNames -> BOOLEAN]

Null == [kind |-> "null"]

ValidResult(value, normalizedText) ==
  [kind |-> "Valid", value |-> value, normalizedText |-> normalizedText]

IncompleteResult(reason, normalizedText) ==
  [kind |-> "Incomplete", reason |-> reason, normalizedText |-> normalizedText]

InvalidResult(reason, normalizedText) ==
  [kind |-> "Invalid", reason |-> reason, normalizedText |-> normalizedText]

\* variant: the leading "+" is kept
normalizeNumericText_KeepsPlus(text, o) == text

\* variant: any leading sign is removed
normalizeNumericText_StripsAnySign(text, o) ==
  IF o.allowLeadingPlus /\ Len(text) > 0 /\ text[1] \in SignChar THEN SliceFrom(text, 1) ELSE text

normalizeNumericText(text, o) ==
  IF o.allowLeadingPlus /\ StartsWith(text, <<"+">>) THEN SliceFrom(text, 1) ELSE text

\* variant: the prefixes of "inf" are tested before the prefixes of "infinity"
parseSpecial_InfPrefixFirst(text, o) ==
  IF \E i \in 1..Len(text) : text[i] \in LineTerminator THEN Null
  ELSE
    LET hasSign == Len(text) > 0 /\ text[1] \in SignChar
        sign    == IF hasSign THEN <<text[1]>> ELSE <<>>
        body    == IF hasSign THEN Tail(text) ELSE text
        cmp     == IF o.caseInsensitiveSpecials THEN ToLowerCase(body) ELSE body
        nanTok  == IF o.caseInsensitiveSpecials THEN <<"n", "a", "n">> ELSE <<"N", "a", "N">>
        infTokens == IF o.caseInsensitiveSpecials
                       THEN {<<"i", "n", "f">>, <<"i", "n", "f", "i", "n", "i", "t", "y">>}
                       ELSE {<<"I", "n", "f">>, <<"I", "n", "f", "i", "n", "i", "t", "y">>}
        target  == <<"i", "n", "f", "i", "n", "i", "t", "y">>
        nan     == IF ~o.allowNaN THEN Null
                   ELSE IF cmp = nanTok
                     THEN ValidResult(NaNValue, sign \o <<"N", "a", "N">>)
                   ELSE IF o.caseInsensitiveSpecials
                           /\ StartsWith(<<"n", "a", "n">>, cmp) /\ Len(cmp) < 3 /\ isAlphaOnly(body)
                     THEN IncompleteResult("incomplete NaN token", text)
                   ELSE Null
        inf     == IF ~o.allowInfinitySynonyms THEN Null
                   ELSE IF cmp \in infTokens
                     THEN ValidResult(InfinityValue(sign = <<"-">>),
                                      sign \o <<"I", "n", "f", "i", "n", "i", "t", "y">>)
                   ELSE IF o.caseInsensitiveSpecials /\ isAlphaOnly(body)
                     THEN IF StartsWith(<<"i", "n", "f">>, cmp) /\ Len(cmp) < 3
                            THEN IncompleteResult("incomplete Inf token", text)
                          ELSE IF StartsWith(target, cmp) /\ Len(cmp) < Len(target)
                            THEN IncompleteResult("incomplete Infinity token", text)
                          ELSE Null
                   ELSE Null
    IN  IF nan.kind # "null" THEN nan ELSE inf

parseSpecial(text, o) ==
  \* text.match(/^([+-])?(.*)$/) fails when a line terminator is left in the text
  IF \E i \in 1..Len(text) : text[i] \in LineTerminator THEN Null
  ELSE
    LET hasSign == Len(text) > 0 /\ text[1] \in SignChar
        sign    == IF hasSign THEN <<text[1]>> ELSE <<>>
        body    == IF hasSign THEN Tail(text) ELSE text
        cmp     == IF o.caseInsensitiveSpecials THEN ToLowerCase(body) ELSE body
        nanTok  == IF o.caseInsensitiveSpecials THEN <<"n", "a", "n">> ELSE <<"N", "a", "N">>
        infTokens == IF o.caseInsensitiveSpecials
                       THEN {<<"i", "n", "f">>, <<"i", "n", "f", "i", "n", "i", "t", "y">>}
                       ELSE {<<"I", "n", "f">>, <<"I", "n", "f", "i", "n", "i", "t", "y">>}
        target  == <<"i", "n", "f", "i", "n", "i", "t", "y">>
        nan     == IF ~o.allowNaN THEN Null
                   ELSE IF cmp = nanTok
                     THEN ValidResult(NaNValue, sign \o <<"N", "a", "N">>)
                   ELSE IF o.caseInsensitiveSpecials
                           /\ StartsWith(<<"n", "a", "n">>, cmp) /\ Len(cmp) < 3 /\ isAlphaOnly(body)
                     THEN IncompleteResult("incomplete NaN token", text)
                   ELSE Null
        inf     == IF ~o.allowInfinitySynonyms THEN Null
                   ELSE IF cmp \in infTokens
                     THEN ValidResult(InfinityValue(sign = <<"-">>),
                                      sign \o <<"I", "n", "f", "i", "n", "i", "t", "y">>)
                   ELSE IF o.caseInsensitiveSpecials /\ isAlphaOnly(body)
                     THEN IF StartsWith(target, cmp) /\ Len(cmp) < Len(target)
                            THEN IncompleteResult("incomplete Infinity token", text)
                          ELSE IF StartsWith(<<"i", "n", "f">>, cmp) /\ Len(cmp) < 3
                            THEN IncompleteResult("incomplete Inf token", text)
                          ELSE Null
                   ELSE Null
    IN  IF nan.kind # "null" THEN nan ELSE inf

\* variant: the signed dot "-." / "+." is not recognised
isIncompleteNumberToken_NoSignedDot(text, o) ==
  IF text = <<"-">> \/ (o.allowLeadingPlus /\ text = <<"+">>) THEN "sign only"
  ELSE IF text = <<".">> THEN "dot only"
  ELSE IF ExponentMarkerRe(text) THEN "exponent marker only"
  ELSE IF ExponentSignRe(text) THEN "exponent sign only"
  ELSE "null"

\* variant: the bare exponent sign is not recognised
isIncompleteNumberToken_NoExponentSign(text, o) ==
  IF text = <<"-">> \/ (o.allowLeadingPlus /\ text = <<"+">>) THEN "sign only"
  ELSE IF text = <<".">> \/ text = <<"-", ".">> \/ (o.allowLeadingPlus /\ text = <<"+", ".">>)
    THEN "dot only"
  ELSE IF ExponentMarkerRe(text) THEN "exponent marker only"
  ELSE "null"

\* the reason, or "null"
isIncompleteNumberToken(text, o) ==
  IF text = <<"-">> \/ (o.allowLeadingPlus /\ text = <<"+">>) THEN "sign only"
  ELSE IF text = <<".">> \/ text = <<"-", ".">> \/ (o.allowLeadingPlus /\ text = <<"+", ".">>)
    THEN "dot only"
  ELSE IF ExponentMarkerRe(text) THEN "exponent marker only"
  ELSE IF ExponentSignRe(text) THEN "exponent sign only"
  ELSE "null"

isValidDecimalNumberSyntax(text, o) ==
  IF ~o.allowLeadingPlus /\ StartsWith(text, <<"+">>) THEN FALSE
  ELSE DecimalNumberRe(text)

\* variant: the result of parseSpecial is tested against undefined, so null is returned
ParseFloatingInput_ReturnsSpecial(raw, o) ==
  LET text       == Trim(raw)
      special    == parseSpecial(text, o)
      incomplete == isIncompleteNumberToken(text, o)
      value      == Number(text)
  IN  IF Len(text) = 0 THEN IncompleteResult("empty", <<>>)
      ELSE IF ~o.allowLeadingPlus /\ StartsWith(text, <<"+">>)
        THEN InvalidResult("leading plus is not allowed", text)
      ELSE IF special.kind # "undefined" THEN special
      ELSE IF incomplete # "null" THEN IncompleteResult(incomplete, text)
      ELSE IF ~isValidDecimalNumberSyntax(text, o)
        THEN InvalidResult("invalid numeric syntax", text)
      ELSE IF IsNaN(value) THEN InvalidResult("parsed to NaN", text)
      ELSE IF ~o.allowInfinitySynonyms /\ ~IsFinite(value)
        THEN InvalidResult("infinity is not allowed", text)
      ELSE ValidResult(value, normalizeNumericText(text, o))

\* variant: the leading-plus check of the entry point is missing
ParseFloatingInput_NoPlusCheck(raw, o) ==
  LET text       == Trim(raw)
      special    == parseSpecial(text, o)
      incomplete == isIncompleteNumberToken(text, o)
      value      == Number(text)
  IN  IF Len(text) = 0 THEN IncompleteResult("empty", <<>>)
      ELSE IF special.kind # "null" THEN special
      ELSE IF incomplete # "null" THEN IncompleteResult(incomplete, text)
      ELSE IF ~isValidDecimalNumberSyntax(text, o)
        THEN InvalidResult("invalid numeric syntax", text)
      ELSE IF IsNaN(value) THEN InvalidResult("parsed to NaN", text)
      ELSE IF ~o.allowInfinitySynonyms /\ ~IsFinite(value)
        THEN InvalidResult("infinity is not allowed", text)
      ELSE ValidResult(value, normalizeNumericText(text, o))

ParseFloatingInput(raw, o) ==
  LET text       == Trim(raw)
      special    == parseSpecial(text, o)
      incomplete == isIncompleteNumberToken(text, o)
      value      == Number(text)
  IN  IF Len(text) = 0 THEN IncompleteResult("empty", <<>>)
      ELSE IF ~o.allowLeadingPlus /\ StartsWith(text, <<"+">>)
        THEN InvalidResult("leading plus is not allowed", text)
      ELSE IF special.kind # "null" THEN special
      ELSE IF incomplete # "null" THEN IncompleteResult(incomplete, text)
      ELSE IF ~isValidDecimalNumberSyntax(text, o)
        THEN InvalidResult("invalid numeric syntax", text)
      ELSE IF IsNaN(value) THEN InvalidResult("parsed to NaN", text)
      ELSE IF ~o.allowInfinitySynonyms /\ ~IsFinite(value)
        THEN InvalidResult("infinity is not allowed", text)
      ELSE ValidResult(value, normalizeNumericText(text, o))

(* ----------------------- binary64 and binary32 -------------------------- *)
(* A word is a sequence of bits (0 or 1), most significant first.  The      *)
(* 32-bit numbers of the source are kept as words of 32 bits, since 2^31    *)
(* and above are not integers of the checker; a field of fewer than 31      *)
(* bits is an integer.                                                      *)

Bit == {0, 1}

Zeros(n) == [i \in 1..n |-> 0]

\* the word of width w of the number n
ToBits(n, w) == [i \in 1..w |-> (n \div (2 ^ (w - i))) % 2]

\* the number of a word of at most 30 bits
RECURSIVE BitsToIntRange(_, _, _)
BitsToIntRange(b, lo, hi) ==
  IF lo > hi THEN 0
  ELSE IF lo = hi THEN b[lo]
  ELSE BitsToIntRange(b, lo, (lo + hi) \div 2) * (2 ^ (hi - (lo + hi) \div 2))
         + BitsToIntRange(b, (lo + hi) \div 2 + 1, hi)

BitsToInt(b) == BitsToIntRange(b, 1, Len(b))

\* the word b plus one, kept in the width of b
Increment(b) ==
  LET z == {i \in 1..Len(b) : b[i] = 0}
  IN  IF z = {} THEN Zeros(Len(b))
      ELSE [i \in 1..Len(b) |-> IF i < Max(z) THEN b[i] ELSE IF i = Max(z) THEN 1 ELSE 0]

(* Natural numbers of any size: limbs of 15 bits, least significant first,  *)
(* without high zero limbs.                                                 *)

LimbBase == 32768

BigTrim(a) ==
  LET nz == {i \in 1..Len(a) : a[i] # 0}
  IN  IF nz = {} THEN <<>> ELSE SubSeq(a, 1, Max(nz))

\* a + b
BigAdd(a, b) ==
  LET A(i) == IF i <= Len(a) THEN a[i] ELSE 0
      B(i) == IF i <= Len(b) THEN b[i] ELSE 0
      n    == IF Len(a) > Len(b) THEN Len(a) ELSE Len(b)
      \* the carry into limb i comes from the nearest limb below that decides
      \* it, k limbs down
      Decides(j) == A(j) + B(j) # LimbBase - 1
      Nearest(i) == CHOOSE k \in 1..(i - 1) :
                      Decides(i - k) /\ \A l \in 1..(k - 1) : ~Decides(i - l)
      carry(i) == IF \A j \in 1..(i - 1) : ~Decides(j) THEN 0
                  ELSE IF A(i - Nearest(i)) + B(i - Nearest(i)) >= LimbBase THEN 1 ELSE 0
  IN  BigTrim([i \in 1..(n + 1) |-> (A(i) + B(i) + carry(i)) % LimbBase])

\* a * m for m below LimbBase: the low halves of the products of the limbs
\* plus their high halves one limb up
BigMulSmall(a, m) ==
  BigAdd([i \in 1..Len(a) |-> (a[i] * m) % LimbBase],
         <<0>> \o [i \in 1..Len(a) |-> (a[i] * m) \div LimbBase])

\* a * 5^k
RECURSIVE BigMulPow5(_, _)
BigMulPow5(a, k) ==
  IF k <= 6 THEN BigMulSmall(a, 5 ^ k)
  ELSE LET half == BigMulPow5(a, k \div 2)
       IN  IF half = <<>> THEN <<>> ELSE BigMulPow5(half, k - (k \div 2))

\* a * 2^n: whole limbs of zeros below, and each limb takes the bits shifted
\* out of the limb under it
BigShl(a, n) ==
  IF a = <<>> THEN <<>>
  ELSE LET L(i) == IF 1 <= i /\ i <= Len(a) THEN a[i] * (2 ^ (n % 15)) ELSE 0
       IN  Zeros(n \div 15)
             \o BigTrim([i \in 1..(Len(a) + 1) |->
                           (L(i) % LimbBase) + (L(i - 1) \div LimbBase)])

BigBitLen(a) ==
  IF a = <<>> THEN 0
  ELSE 15 * (Len(a) - 1) + (CHOOSE b \in 1..15 : 2 ^ (b - 1) <= a[Len(a)] /\ a[Len(a)] < 2 ^ b)

\* the number written by the decimal digits lo..hi of ds
RECURSIVE BigFromDigits(_, _, _)
BigFromDigits(ds, lo, hi) ==
  IF lo > hi THEN <<>>
  ELSE IF lo = hi THEN BigTrim(<<ds[lo]>>)
  ELSE LET mid   == (lo + hi) \div 2
           left  == BigFromDigits(ds, lo, mid)
           right == BigFromDigits(ds, mid + 1, hi)
       IN  IF left = <<>> THEN right
           ELSE IF right = <<>> THEN BigShl(BigMulPow5(left, hi - mid), hi - mid)
           ELSE BigAdd(BigShl(BigMulPow5(left, hi - mid), hi - mid), right)

\* 1, 0 or -1 as a is above, equal to or below b
BigCmp(a, b) ==
  IF Len(a) # Len(b) THEN (IF Len(a) > Len(b) THEN 1 ELSE 0 - 1)
  ELSE LET d == {i \in 1..Len(a) : a[i] # b[i]}
       IN  IF d = {} THEN 0 ELSE IF a[Max(d)] > b[Max(d)] THEN 1 ELSE 0 - 1

\* a - b, for a >= b
BigSub(a, b) ==
  LET B(i) == IF i <= Len(b) THEN b[i] ELSE 0
      \* the borrow from limb i comes from the nearest limb below that decides
      \* it, k limbs down
      Decides(j) == a[j] # B(j)
      Nearest(i) == CHOOSE k \in 1..(i - 1) :
                      Decides(i - k) /\ \A l \in 1..(k - 1) : ~Decides(i - l)
      borrow(i) == IF \A j \in 1..(i - 1) : ~Decides(j) THEN 0
                   ELSE IF a[i - Nearest(i)] < B(i - Nearest(i)) THEN 1 ELSE 0
  IN  BigTrim([i \in 1..Len(a) |-> (a[i] - B(i) - borrow(i) + LimbBase) % LimbBase])

\* the quotient bits hi..lo of r / d (most significant first) and the
\* remainder, for r < d * 2^(hi+1)
RECURSIVE BigDivBits(_, _, _, _)
BigDivBits(r, d, hi, lo) ==
  IF hi = lo
    THEN IF BigCmp(r, BigShl(d, hi)) >= 0
           THEN [q |-> <<1>>, r |-> BigSub(r, BigShl(d, hi))]
           ELSE [q |-> <<0>>, r |-> r]
  ELSE LET mid   == (hi + lo) \div 2
           left  == BigDivBits(r, d, hi, mid + 1)
           right == BigDivBits(left.r, d, mid, lo)
       IN  [q |-> left.q \o right.q, r |-> right.r]

\* the 64 bits of a binary64 from its fields
Pack64(sign, exponent, fraction) == <<sign>> \o ToBits(exponent, 11) \o fraction

\* a * 2^n, and a itself for n <= 0
Scaled(a, n) == IF n > 0 THEN BigShl(a, n) ELSE a

\* the 54 quotient bits of n / d in units of 2^s, and the remainder
QuotientAt(n, d, s) == BigDivBits(Scaled(n, 0 - s), Scaled(d, s), 53, 0)

\* the quotient q rounded to nearest, ties to even; c compares twice the
\* remainder with the divisor
RoundHalfEven(q, c) ==
  IF c > 0 \/ (c = 0 /\ q[54] = 1) THEN Increment(q) ELSE q

\* the binary64 of the rounded quotient q in units of 2^e2
EncodeBinary64(sign, e2, q) ==
  LET field == IF q[1] = 1 THEN e2 + 1076 ELSE IF q[2] = 1 THEN e2 + 1075 ELSE 0
  IN  IF field >= 2047 THEN Pack64(sign, 2047, Zeros(52))
      ELSE IF q[1] = 1 THEN Pack64(sign, field, Zeros(52))
      ELSE Pack64(sign, field, SubSeq(q, 3, 54))

RoundQuotient(sign, dn, dv, e2) ==
  EncodeBinary64(sign, e2, RoundHalfEven(dv.q, BigCmp(BigShl(dv.r, 1), dn)))

\* the quotient d0 taken at the scale s0 has 53 bits, or 54 and is taken
\* again one scale up
RoundAtScale(sign, n, d, k, s0, d0) ==
  IF d0.q[1] = 1
    THEN RoundQuotient(sign, Scaled(d, s0 + 1), QuotientAt(n, d, s0 + 1), s0 + 1 + k)
    ELSE RoundQuotient(sign, Scaled(d, s0), d0, s0 + k)

\* the quotient is taken in units of 2^(s + k), to 53 bits or down to the
\* unit of the subnormals
RoundFrom(sign, n, d, k, s0) == RoundAtScale(sign, n, d, k, s0, QuotientAt(n, d, s0))

\* (n / d) * 2^k rounded to the nearest binary64, ties to even, for n > 0
RoundToBinary64(sign, n, d, k) ==
  RoundFrom(sign, n, d, k,
            IF BigBitLen(n) - BigBitLen(d) - 53 > 0 - 1074 - k
              THEN BigBitLen(n) - BigBitLen(d) - 53 ELSE 0 - 1074 - k)

\* the value (n / d) * 2^k: from 2^1025 on it is above every finite binary64
RatioToBinary64(sign, n, d, k) ==
  IF BigBitLen(n) - BigBitLen(d) + k > 1025 THEN Pack64(sign, 2047, Zeros(52))
  ELSE RoundToBinary64(sign, n, d, k)

\* the value s * 10^k is (s * 5^k) * 2^k, or (s / 5^-k) * 2^k for k < 0
ScaledToBinary64(sign, s, k) ==
  IF s = <<>> THEN Pack64(sign, 0, Zeros(52))
  ELSE RatioToBinary64(sign,
                       IF k >= 0 THEN BigMulPow5(s, k) ELSE s,
                       IF k >= 0 THEN <<1>> ELSE BigMulPow5(<<1>>, 0 - k),
                       k)

\* the decimal 0.d1..dn * 10^exp10 rounded to the nearest binary64, ties to even
\* (below 10^-324 the value is under half the smallest subnormal, 2^-1075)
DecimalToBinary64(neg, sig, exp10) ==
  IF exp10 <= 0 - 324 THEN Pack64(IF neg THEN 1 ELSE 0, 0, Zeros(52))
  ELSE ScaledToBinary64(IF neg THEN 1 ELSE 0,
                        BigFromDigits(sig, 1, Len(sig)), exp10 - Len(sig))

\* a number given by its binary64 encoding
Binary64Value(bits) == [cls |-> "Binary64", bits |-> bits]

\* Binary64 writing NaN with an empty mantissa
Binary64_NaNAsInfinity(v) ==
  IF v.cls = "NaN" \/ v.cls = "Infinity"
    THEN Pack64(IF v.cls = "Infinity" /\ v.neg THEN 1 ELSE 0, 2047, Zeros(52))
  ELSE IF v.cls = "Binary64" THEN v.bits
  ELSE DecimalToBinary64(v.neg, v.sig, v.exp10)

\* the binary64 encoding of a number (NaN is written as the quiet NaN
\* 7ff8000000000000, as the documentation of the viewer shows)
Binary64(v) ==
  IF v.cls = "NaN" THEN Pack64(0, 2047, <<1>> \o Zeros(51))
  ELSE IF v.cls = "Infinity" THEN Pack64(IF v.neg THEN 1 ELSE 0, 2047, Zeros(52))
  ELSE IF v.cls = "Binary64" THEN v.bits
  ELSE DecimalToBinary64(v.neg, v.sig, v.exp10)

\* the 32 bits of a binary32 from its sign and the 31 bits below it
Pack32(sign, magnitude) == <<sign>> \o ToBits(magnitude, 31)

\* a binary64 narrowed by cutting the bits that do not fit
Binary32_Truncating(b64) ==
  LET sign   == b64[1]
      e      == BitsToInt(SubSeq(b64, 2, 12))
      top23  == BitsToInt(SubSeq(b64, 13, 35))
      low29  == BitsToInt(SubSeq(b64, 36, 64))
      e32    == e - 1023 + 127
      shift  == 1 - e32
  IN  IF e = 2047
        THEN IF top23 = 0 /\ low29 = 0 THEN Pack32(sign, 255 * (2 ^ 23))
             ELSE Pack32(sign, 255 * (2 ^ 23) + 2 ^ 22 + (top23 % (2 ^ 22)))
      ELSE IF e32 >= 255 THEN Pack32(sign, 255 * (2 ^ 23))
      ELSE IF e32 >= 1 THEN Pack32(sign, e32 * (2 ^ 23) + top23)
      ELSE IF shift > 25 THEN Pack32(sign, 0)
      ELSE Pack32(sign, (2 ^ 23 + top23) \div (2 ^ shift))

\* a binary64 narrowed to the nearest binary32, ties to even
Binary32(b64) ==
  LET sign   == b64[1]
      e      == BitsToInt(SubSeq(b64, 2, 12))
      top23  == BitsToInt(SubSeq(b64, 13, 35))
      low29  == BitsToInt(SubSeq(b64, 36, 64))
      e32    == e - 1023 + 127
      half   == 2 ^ 28
      upN    == low29 > half \/ (low29 = half /\ top23 % 2 = 1)
      \* exponent and fraction of a normal result as one number
      normal == e32 * (2 ^ 23) + top23 + (IF upN THEN 1 ELSE 0)
      shift  == 1 - e32
      sig24  == 2 ^ 23 + top23
      qS     == sig24 \div (2 ^ shift)
      rS     == sig24 % (2 ^ shift)
      halfS  == 2 ^ (shift - 1)
      upS    == rS > halfS \/ (rS = halfS /\ (low29 # 0 \/ qS % 2 = 1))
  IN  IF e = 2047
        THEN IF top23 = 0 /\ low29 = 0 THEN Pack32(sign, 255 * (2 ^ 23))
             ELSE Pack32(sign, 255 * (2 ^ 23) + 2 ^ 22 + (top23 % (2 ^ 22)))
      ELSE IF e32 >= 255 THEN Pack32(sign, 255 * (2 ^ 23))
      ELSE IF e32 >= 1
        THEN IF normal >= 255 * (2 ^ 23) THEN Pack32(sign, 255 * (2 ^ 23)) ELSE Pack32(sign, normal)
      ELSE IF shift > 25 THEN Pack32(sign, 0)
      ELSE Pack32(sign, qS + (IF upS THEN 1 ELSE 0))

(* ------------------------- the bit extractor ---------------------------- *)

\* DataView: a buffer is a sequence of bytes, a byte a word of 8 bits
BytesOf(word) == [k \in 1..(Len(word) \div 8) |-> SubSeq(word, 8 * k - 7, 8 * k)]

Reverse(s) == [i \in 1..Len(s) |-> s[Len(s) + 1 - i]]

\* the bytes of a word in the order of the buffer
StoreBytes(word, littleEndian) ==
  IF littleEndian THEN Reverse(BytesOf(word)) ELSE BytesOf(word)

\* the 64 bits of the number are narrowed, then stored
StoreNarrowed(b64, littleEndian) ==
  IF Len(b64) = 64 THEN StoreBytes(Binary32(b64), littleEndian) ELSE <<>>

setFloat32(value, littleEndian) == StoreNarrowed(Binary64(value), littleEndian)

setFloat64(value, littleEndian) == StoreBytes(Binary64(value), littleEndian)

\* getUint32 reading the bytes in big-endian order whatever the flag
getUint32_BigEndian(buf, byteOffset, littleEndian) ==
  buf[byteOffset + 1] \o buf[byteOffset + 2] \o buf[byteOffset + 3] \o buf[byteOffset + 4]

\* the 32-bit word of the four bytes from byteOffset on
getUint32(buf, byteOffset, littleEndian) ==
  LET b(i) == buf[byteOffset + i]
  IN  IF littleEndian THEN b(4) \o b(3) \o b(2) \o b(1)
      ELSE b(1) \o b(2) \o b(3) \o b(4)

\* (u32 >>> shift) & (2^width - 1)
ShiftMask(u32, shift, width) ==
  BitsToInt(SubSeq(u32, 33 - shift - width, 32 - shift))

\* String.prototype.slice(start, end) and padStart, Number.prototype.toString
Slice(s, start, end) == SubSeq(s, start + 1, IF end < Len(s) THEN end ELSE Len(s))

PadStart(s, n, c) == IF Len(s) >= n THEN s ELSE [i \in 1..(n - Len(s)) |-> c] \o s

HexDigits == <<"0", "1", "2", "3", "4", "5", "6", "7", "8", "9", "a", "b", "c", "d", "e", "f">>

\* the digits of a number without leading zeros ("0" for zero)
StripLeadingZeros(ds) ==
  LET nz == {i \in 1..Len(ds) : ds[i] # "0"}
  IN  IF nz = {} THEN <<"0">> ELSE SubSeq(ds, Min(nz), Len(ds))

ToStringRadix2(u32) ==
  StripLeadingZeros([i \in 1..Len(u32) |-> HexDigits[u32[i] + 1]])

ToStringRadix16(u32) ==
  StripLeadingZeros([k \in 1..(Len(u32) \div 4) |->
                       HexDigits[BitsToInt(SubSeq(u32, 4 * k - 3, 4 * k)) + 1]])

\* parseInt(text, 2) of a text of binary digits
ParseIntRadix2(text) == BitsToInt([i \in 1..Len(text) |-> IF text[i] = "1" THEN 1 ELSE 0])

toBitsString32(u32) == PadStart(ToStringRadix2(u32), 32, "0")

\* toHex32 without the padding to 8 digits
toHex32_NoPad(u32) == ToStringRadix16(u32)

toHex32(u32) == PadStart(ToStringRadix16(u32), 8, "0")

toHex64(hi, lo) == toHex32(hi) \o toHex32(lo)

toBitsString64(hi, lo) == toBitsString32(hi) \o toBitsString32(lo)

RECURSIVE groupEvery(_, _, _)
groupEvery(s, n, sep) ==
  IF Len(s) <= n THEN s
  ELSE SubSeq(s, 1, n) \o sep \o groupEvery(SubSeq(s, n + 1, Len(s)), n, sep)

\* grouping that puts the short group first
groupWithRemainderAtEnd_RemainderFirst(s, group, sep) ==
  LET r     == Len(s) % group
      first == IF r = 0 THEN group ELSE r
      rest(i) == i - first - 1
  IN  [i \in 1..(Len(s) + (Len(s) - first) \div group) |->
         IF i <= first THEN s[i]
         ELSE IF rest(i) % (group + 1) = 0 THEN sep[1]
         ELSE s[first + (rest(i) \div (group + 1)) * group + (rest(i) % (group + 1))]]

groupWithRemainderAtEnd(s, group, sep) == groupEvery(s, group, sep)

classifyFloat32(exp, mant) ==
  IF exp = 0 THEN (IF mant = 0 THEN "Zero" ELSE "Subnormal")
  ELSE IF exp = 255 THEN (IF mant = 0 THEN "Infinity" ELSE "NaN")
  ELSE "Normal"

\* classifyFloat64 looking at the upper 20 bits of the mantissa only
classifyFloat64_HighOnly(exp, mantHi, mantLo) ==
  LET mantIsZero == mantHi = 0
  IN  IF exp = 0 THEN (IF mantIsZero THEN "Zero" ELSE "Subnormal")
      ELSE IF exp = 2047 THEN (IF mantIsZero THEN "Infinity" ELSE "NaN")
      ELSE "Normal"

\* mantLo is a 32-bit word
classifyFloat64(exp, mantHi, mantLo) ==
  LET mantIsZero == mantHi = 0 /\ mantLo = Zeros(32)
  IN  IF exp = 0 THEN (IF mantIsZero THEN "Zero" ELSE "Subnormal")
      ELSE IF exp = 2047 THEN (IF mantIsZero THEN "Infinity" ELSE "NaN")
      ELSE "Normal"

\* bitsToHexPadded filling the last group on the right
bitsToHexPadded_PadRight(bits) ==
  LET pad    == (4 - (Len(bits) % 4)) % 4
      padded == bits \o [i \in 1..pad |-> "0"]
  IN  [k \in 1..(Len(padded) \div 4) |->
         HexDigits[ParseIntRadix2(Slice(padded, 4 * (k - 1), 4 * k)) + 1]]

bitsToHexPadded(bits) ==
  LET pad    == (4 - (Len(bits) % 4)) % 4
      padded == [i \in 1..pad |-> "0"] \o bits
  IN  [k \in 1..(Len(padded) \div 4) |->
         HexDigits[ParseIntRadix2(Slice(padded, 4 * (k - 1), 4 * k)) + 1]]

\* number | null: a sequence of one number, or of none
Some(n) == <<n>>

\* a zero where the source gives null
None_Zero == <<0>>

None == <<>>

\* the fields and the texts of the word u32 read back from the buffer
Float32BitsInfo(u32) ==
  LET signBit         == ShiftMask(u32, 31, 1)
      exponentBits    == ShiftMask(u32, 23, 8)
      mantissaBits    == ShiftMask(u32, 0, 23)
      kind            == classifyFloat32(exponentBits, mantissaBits)
      exponentUnbiased ==
        IF kind = "Normal" THEN Some(exponentBits - 127)
        ELSE IF kind = "Subnormal" THEN Some(0 - 126)
        ELSE None
      bits            == toBitsString32(u32)
      hex             == toHex32(u32)
      signBitsStr     == Slice(bits, 0, 1)
      exponentBitsStr == Slice(bits, 1, 9)
      mantissaBitsStr == SliceFrom(bits, 9)
      mantissaGrouped4 == groupWithRemainderAtEnd(mantissaBitsStr, 4, <<" ">>)
  IN  [kind |-> kind, signBit |-> signBit, exponentBits |-> exponentBits,
       mantissaBits |-> mantissaBits, exponentUnbiased |-> exponentUnbiased,
       hex |-> hex, bits |-> bits,
       hexGrouped |-> groupEvery(hex, 2, <<" ">>),
       bitsGrouped8 |-> groupEvery(bits, 8, <<" ">>),
       signBitsStr |-> signBitsStr, exponentBitsStr |-> exponentBitsStr,
       mantissaBitsStr |-> mantissaBitsStr,
       exponentGrouped4 |-> groupEvery(exponentBitsStr, 4, <<" ">>),
       mantissaGrouped4 |-> mantissaGrouped4,
       payloadBitsStr |-> mantissaBitsStr,
       payloadGrouped4 |-> mantissaGrouped4,
       payloadHexPadded |-> PadStart(bitsToHexPadded(mantissaBitsStr), 6, "0")]

\* the buffer of four bytes is written, then read
ReadFloat32(buf) ==
  IF Len(buf) = 4 THEN Float32BitsInfo(getUint32(buf, 0, TRUE)) ELSE [kind |-> "none"]

float32Bits(value) == ReadFloat32(setFloat32(value, TRUE))

\* the fields and the texts of the words hi and lo read back from the buffer
Float64BitsInfo(hi, lo) ==
  LET signBit         == ShiftMask(hi, 31, 1)
      exponentBits    == ShiftMask(hi, 20, 11)
      mantissaHigh    == ShiftMask(hi, 0, 20)
      mantissaLow     == lo
      kind            == classifyFloat64(exponentBits, mantissaHigh, mantissaLow)
      exponentUnbiased ==
        IF kind = "Normal" THEN Some(exponentBits - 1023)
        ELSE IF kind = "Subnormal" THEN Some(0 - 1022)
        ELSE None
      bits            == toBitsString64(hi, lo)
      hex             == toHex64(hi, lo)
      signBitsStr     == Slice(bits, 0, 1)
      exponentBitsStr == Slice(bits, 1, 12)
      mantissaBitsStr == SliceFrom(bits, 12)
      mantissaGrouped4 == groupEvery(mantissaBitsStr, 4, <<" ">>)
  IN  [kind |-> kind, signBit |-> signBit, exponentBits |-> exponentBits,
       mantissaHigh |-> mantissaHigh, mantissaLow |-> mantissaLow,
       exponentUnbiased |-> exponentUnbiased,
       hex |-> hex, bits |-> bits,
       hexGrouped |-> groupEvery(hex, 2, <<" ">>),
       bitsGrouped8 |-> groupEvery(bits, 8, <<" ">>),
       signBitsStr |-> signBitsStr, exponentBitsStr |-> exponentBitsStr,
       mantissaBitsStr |-> mantissaBitsStr,
       exponentGrouped4 |-> Slice(exponentBitsStr, 0, 3) \o <<" ">>
                              \o Slice(exponentBitsStr, 3, 7) \o <<" ">>
                              \o Slice(exponentBitsStr, 7, 11),
       mantissaGrouped4 |-> mantissaGrouped4,
       payloadBitsStr |-> mantissaBitsStr,
       payloadGrouped4 |-> mantissaGrouped4,
       payloadHexPadded |-> PadStart(bitsToHexPadded(mantissaBitsStr), 13, "0")]

\* the buffer of eight bytes is written once, then read twice
ReadFloat64(buf) ==
  IF Len(buf) = 8 THEN Float64BitsInfo(getUint32(buf, 4, TRUE), getUint32(buf, 0, TRUE))
  ELSE [kind |-> "none"]

float64Bits(value) == ReadFloat64(setFloat64(value, TRUE))

(* ---------------------------- buildViewModel --------------------------- *)

Precision == {"float", "double"}

\* the view of the result r of the classifier at the precision prec
ViewModelOf(r, prec) ==
  IF r.kind = "Incomplete"
    THEN [state |-> "Incomplete", normalizedText |-> r.normalizedText, message |-> r.reason]
  ELSE IF r.kind = "Invalid"
    THEN [state |-> "Invalid", normalizedText |-> r.normalizedText, message |-> r.reason]
  ELSE [state |-> "Valid", normalizedText |-> r.normalizedText, value |-> r.value,
        precision |-> prec,
        bits |-> IF prec = "float" THEN float32Bits(r.value) ELSE float64Bits(r.value)]

\* buildViewModel reporting every text that is not Valid as Incomplete
buildViewModel_InvalidAsIncomplete(inputText, prec) ==
  LET r == ParseFloatingInput(inputText, defaultOptions)
  IN  IF r.kind = "Incomplete" \/ r.kind = "Invalid"
        THEN [state |-> "Incomplete", normalizedText |-> r.normalizedText, message |-> r.reason]
      ELSE [state |-> "Valid", normalizedText |-> r.normalizedText, value |-> r.value,
            precision |-> prec,
            bits |-> IF prec = "float" THEN float32Bits(r.value) ELSE float64Bits(r.value)]

\* buildViewModel attaching the binary64 bits at either precision
buildViewModel_AlwaysDouble(inputText, prec) ==
  LET r == ParseFloatingInput(inputText, defaultOptions)
  IN  IF r.kind = "Incomplete"
        THEN [state |-> "Incomplete", normalizedText |-> r.normalizedText, message |-> r.reason]
      ELSE IF r.kind = "Invalid"
        THEN [state |-> "Invalid", normalizedText |-> r.normalizedText, message |-> r.reason]
      ELSE [state |-> "Valid", normalizedText |-> r.normalizedText, value |-> r.value,
            precision |-> prec, bits |-> float64Bits(r.value)]

\* buildViewModel classifying with options that allow neither a leading plus
\* nor an infinite value
buildViewModel_StrictOptions(inputText, prec) ==
  ViewModelOf(ParseFloatingInput(inputText,
                                 [defaultOptions EXCEPT !.allowLeadingPlus = FALSE,
                                                        !.allowInfinitySynonyms = FALSE]),
              prec)

buildViewModel(inputText, prec) ==
  ViewModelOf(ParseFloatingInput(inputText, defaultOptions), prec)

(* ----------------------------- the inputs ------------------------------ *)

\* the characters of the texts enumerated up to MaxLen
Alphabet == {"0", "1", ".", "e", "E", "+", "-", "n", "a", "N", "i", "f", " ", "x"}

ShortTexts == UNION {[1..n -> Alphabet] : n \in 0..MaxLen}

\* "1" followed by LongZeros zeros: a literal at or above 1e309
LongLiteral == <<"1">> \o [i \in 1..LongZeros |-> "0"]

\* the literals of the documentation and the tests, and texts beyond MaxLen
Samples ==
  { <<"-", "1", ".", "2", "E", "+", "8">>, <<"-", "1", ".", "2", "5">>,
    <<"1", "e", "-", "3">>, <<"1", "e", "e", "3">>, <<"1", "e", "1", ".", "2">>,
    <<"1", ".", "5", "e">>, <<".", "5", "E", "+">>, <<"-", "2", ".", "e", "-">>,
    <<"N", "a", "N">>, <<"-", "N", "a", "N">>, <<"+", "n", "A", "n">>,
    <<"I", "n", "f">>, <<"-", "i", "N", "f">>, <<"i", "n", "f", "i">>,
    <<"I", "n", "f", "i", "n", "i", "t">>, <<"i", "n", "f", "i", "n">>, <<"-", "I", "N", "F", "I", "N", "I">>, <<"+", "I", "n", "f", "i", "n", "i", "t", "y">>,
    <<"-", "I", "n", "f", "i", "n", "i", "t", "y">>, <<"I", "N", "F", "I", "N", "I", "T", "Y">>,
    <<"i", "n", "f", "i", "n", "i", "t", "y", "x">>, <<"i", "n", "f", "1">>,
    <<"1", "e", "4", "0", "0">>, <<"+", "1", "e", "9", "9", "9">>, <<"-", "1", "e", "3", "0", "9">>,
    <<"1", ".", "8", "e", "3", "0", "8">>, <<"1", ".", "7", "e", "3", "0", "8">>,
    <<"1", "e", "-", "4", "0", "0">>, <<"0", "e", "9", "9", "9">>,
    <<" ", "+", "i", "n", "f", "\t">>, <<"\t", "1", ".", "5", "\n">>, <<"1", "\n", "2">>,
    <<" ", " ", " ", " ">>, <<" ", "+", " ">>, <<"N", "a", "N", " ", " ">>,
    <<"\f", "1">>, <<"", "1", " ">>, <<"﻿", "-", "U+2003">>,
    <<"U+3000", "n", "a", "U+2029">>, <<" ", "U+2028">>, <<"1", "U+2028", "2">>,
    <<"1", "\f", "2">>,
    <<"1", "e", "9", "9", "9", "9", "9", "9", "9", "9", "9", "9", "9">>,
    <<"-", "1", "e", "-", "9", "9", "9", "9", "9", "9", "9", "9", "9", "9", "9">>,
    LongLiteral, LongLiteral \o <<"e">>, LongLiteral \o <<"E", "+">>,
    LongLiteral \o <<"e", "-">>, LongLiteral \o <<"e", "-", "9">>,
    <<"+">> \o LongLiteral \o <<"e", "+">> }

Inputs == ShortTexts \cup Samples

\* literals at the edges of the two formats: ties, subnormals, the largest
\* finite values
RoundingSamples ==
  { <<"0", ".", "1">>,
    <<"1", "6", "7", "7", "7", "2", "1", "7">>,
    <<"1", "6", "7", "7", "7", "2", "1", "9">>,
    <<"9", "0", "0", "7", "1", "9", "9", "2", "5", "4", "7", "4", "0", "9", "9", "3">>,
    <<"-", "9", "0", "0", "7", "1", "9", "9", "2", "5", "4", "7", "4", "0", "9", "9", "5">>,
    <<"3", ".", "4", "0", "2", "8", "2", "3", "5", "e", "3", "8">>,
    <<"3", ".", "4", "0", "2", "8", "2", "3", "5", "6", "7", "7", "9", "7", "3", "3", "6", "6", "e", "3", "8">>,
    <<"-", "3", ".", "4", "0", "2", "8", "2", "3", "5", "6", "7", "7", "9", "7", "3", "3", "6", "2", "e", "3", "8">>,
    <<"1", ".", "4", "e", "-", "4", "5">>,
    <<"7", ".", "0", "0", "6", "4", "9", "2", "3", "2", "1", "6", "2", "4", "0", "8", "5", "e", "-", "4", "6">>,
    <<"-", "7", ".", "0", "0", "6", "4", "9", "2", "3", "2", "1", "6", "2", "4", "0", "8", "6", "e", "-", "4", "6">>,
    <<"1", ".", "1", "7", "5", "4", "9", "4", "2", "e", "-", "3", "8">>,
    <<"4", ".", "9", "e", "-", "3", "2", "4">>,
    <<"-", "2", ".", "4", "7", "e", "-", "3", "2", "4">>,
    <<"2", ".", "2", "2", "5", "0", "7", "3", "8", "5", "8", "5", "0", "7", "2", "0", "1", "1", "e", "-", "3", "0", "8">>,
    <<"1", ".", "7", "9", "7", "6", "9", "3", "1", "3", "4", "8", "6", "2", "3", "1", "5", "7", "e", "3", "0", "8">>,
    <<"1", "e", "2", "3">>,
    <<"-", "0">> }

BitsInputs == Inputs \cup RoundingSamples

\* the fields of the doubles passed to the extractors: biased exponents, the
\* upper 23 bits of the mantissa and the 29 bits below them
SampleExponents ==
  {0, 1, 872, 873, 874, 896, 897, 1022, 1023, 1024, 1150, 1151, 2046}

SampleTop23 == {0, 1, 2 ^ 22, 2 ^ 23 - 2, 2 ^ 23 - 1}

SampleLow29 == {0, 1, 2 ^ 28 - 1, 2 ^ 28, 2 ^ 28 + 1, 2 ^ 29 - 1}

Doubles ==
  { Binary64Value(Pack64(s, e, ToBits(t, 23) \o ToBits(l, 29))) :
      s \in Bit, e \in SampleExponents, t \in SampleTop23, l \in SampleLow29 }
  \cup { InfinityValue(neg) : neg \in BOOLEAN } \cup { NaNValue }

(* --------------------------- the state machine ------------------------- *)

\* no call has returned yet
Pending == [kind |-> "pending"]

\* no view model built, no number passed, no bits extracted yet
NoViewModel == [state |-> "pending"]

NoNumber == [cls |-> "none"]

NoBits == [kind |-> "none"]

\* a pane before anything is rendered into it
NoOutput == [shows |-> "nothing"]

\* no panel is open
PanelIdle ==
  /\ floatInput = <<>>
  /\ doubleInput = <<>>
  /\ floatOut = NoOutput
  /\ doubleOut = NoOutput
  /\ toExtension = <<>>
  /\ toWebview = <<>>

Init ==
  /\ input \in Inputs
  /\ opts \in ParseOptions
  /\ result = Pending
  /\ precision = "double"
  /\ vm = NoViewModel
  /\ number = NoNumber
  /\ f32 = NoBits
  /\ f64 = NoBits
  /\ moduleDefaults = defaultOptions
  /\ calls = <<>>
  /\ PanelIdle

\* the caller invokes ParseFloatingInput(input, opts) and keeps what it returns
Call ==
  /\ result = Pending
  /\ result' = ParseFloatingInput(input, opts)
  /\ UNCHANGED <<input, opts, precision, vm, number, f32, f64, callVars, panelVars>>

Next == Call

Spec == Init /\ [][Next]_vars

(* The view and the extractors: the extension builds a view model from the  *)
(* text of the input box at the chosen precision, and the extractors are    *)
(* called with a number.                                                    *)

InitBits ==
  /\ opts = defaultOptions
  /\ result = Pending
  /\ vm = NoViewModel
  /\ f32 = NoBits
  /\ f64 = NoBits
  /\ precision \in Precision
  /\ moduleDefaults = defaultOptions
  /\ calls = <<>>
  /\ PanelIdle
  /\ \/ input \in BitsInputs /\ number = NoNumber
     \/ input = <<>> /\ number \in Doubles

BuildViewModel ==
  /\ number = NoNumber
  /\ vm = NoViewModel
  /\ vm' = buildViewModel(input, precision)
  /\ UNCHANGED <<input, opts, result, precision, number, f32, f64, callVars, panelVars>>

Float32Bits ==
  /\ number # NoNumber
  /\ f32 = NoBits
  /\ f32' = float32Bits(number)
  /\ UNCHANGED <<input, opts, result, precision, vm, number, f64, callVars, panelVars>>

Float64Bits ==
  /\ number # NoNumber
  /\ f64 = NoBits
  /\ f64' = float64Bits(number)
  /\ UNCHANGED <<input, opts, result, precision, vm, number, f32, callVars, panelVars>>

NextBits == BuildViewModel \/ Float32Bits \/ Float64Bits

SpecBits == InitBits /\ [][NextBits]_vars

(* The webview: the guard of the two input boxes lets a character through   *)
(* when the regular expression allowedChar matches it.                      *)

\* a filter that leaves out the letters of "Infinity" beyond "Inf"
allowedChar_WithoutTY(ch) ==
  ch \in Digit \cup {"e", "E", "+", "-", ".", "a", "A", "i", "I", "n", "N", "f", "F"}

\* /^[0-9eE+\-\.aAiInNfFtTyY]$/.test(ch)
allowedChar(ch) ==
  ch \in Digit \cup {"e", "E", "+", "-", ".", "a", "A", "i", "I", "n", "N", "f", "F",
                     "t", "T", "y", "Y"}

(* Calls in any order: the classifier reads the module-level object       *)
(* defaultOptions at every call, the other three functions read nothing     *)
(* but their arguments; every call is logged with what it returned.         *)

\* most calls made in one behaviour
MaxCalls == 3

\* { ...a, ...b }: the fields of a overridden by those of b
Spread(a, b) ==
  [n \in DOMAIN a \cup DOMAIN b |-> IF n \in DOMAIN b THEN b[n] ELSE a[n]]

\* the options object of a call that passes none
NoOptions == [n \in {} |-> TRUE]

\* the options objects passed by the calls
CallOptions ==
  {NoOptions, [allowLeadingPlus |-> FALSE], [allowInfinitySynonyms |-> FALSE]}

CallTexts == {<<"+", "1">>, <<"i", "n", "f">>, <<"1", "e", "4", "0", "0">>}

CallNumbers == {InfinityValue(TRUE)}

\* the spread of line 78 writing into defaultOptions itself
ModuleDefaultsAfter_Assigned(defaults, given) == Spread(defaults, given)

\* defaultOptions after a call of the classifier: the spread builds a new
\* object and leaves its operands as they were
ModuleDefaultsAfter(defaults, given) == defaults

\* no call of the first specifications is made
CallerIdle ==
  /\ input = <<>>
  /\ opts = defaultOptions
  /\ result = Pending
  /\ precision = "double"
  /\ vm = NoViewModel
  /\ number = NoNumber
  /\ f32 = NoBits
  /\ f64 = NoBits

InitCalls ==
  /\ CallerIdle
  /\ PanelIdle
  /\ moduleDefaults = defaultOptions
  /\ calls = <<>>

Logged(fn, args, returned) ==
  /\ Len(calls) < MaxCalls
  /\ calls' = Append(calls, [fn |-> fn, args |-> args, returned |-> returned])
  /\ UNCHANGED <<callerVars, panelVars>>

CallParseFloatingInput ==
  \E text \in CallTexts, given \in CallOptions :
    /\ Logged("ParseFloatingInput", <<text, given>>,
              ParseFloatingInput(text, Spread(moduleDefaults, given)))
    /\ moduleDefaults' = ModuleDefaultsAfter(moduleDefaults, given)

CallBuildViewModel ==
  \E text \in CallTexts, p \in Precision :
    /\ Logged("buildViewModel", <<text, p>>,
              ViewModelOf(ParseFloatingInput(text, Spread(moduleDefaults, NoOptions)), p))
    /\ moduleDefaults' = ModuleDefaultsAfter(moduleDefaults, NoOptions)

CallFloat32Bits ==
  \E value \in CallNumbers :
    /\ Logged("float32Bits", <<value>>, float32Bits(value))
    /\ UNCHANGED moduleDefaults

CallFloat64Bits ==
  \E value \in CallNumbers :
    /\ Logged("float64Bits", <<value>>, float64Bits(value))
    /\ UNCHANGED moduleDefaults

NextCalls ==
  CallParseFloatingInput \/ CallBuildViewModel \/ CallFloat32Bits \/ CallFloat64Bits

SpecCalls == InitCalls /\ [][NextCalls]_vars

(* The panel: the extension answers the update messages of the webview     *)
(* with render messages, and the webview shows what they carry.  Messages   *)
(* in one direction arrive in the order they were sent.                     *)

\* longest text of an input box
MaxField == 1

\* most messages on their way in one direction
MaxQueue == 2

\* values of JavaScript that a message or its text can be
JsString(chars) == [js |-> "string", chars |-> chars]

JsNumber(n) == [js |-> "number", num |-> n]

JsNull == [js |-> "null"]

JsUndefined == [js |-> "undefined"]

JsObject(type, prec, text) ==
  [js |-> "object", type |-> type, precision |-> prec, text |-> text]

\* !v (a record without the tag js is an object of the program, a view model
\* or a render message, and no object is falsy)
Falsy(v) ==
  /\ "js" \in DOMAIN v
  /\ \/ v.js \in {"null", "undefined"}
     \/ v.js = "string" /\ v.chars = <<>>
     \/ v.js = "number" /\ v.num = 0

\* v[name], undefined when the value has no such property
Get(v, name) == IF name \in DOMAIN v THEN v[name] ELSE JsUndefined

\* typeof v
TypeOf(v) == IF v.js = "null" THEN "object" ELSE v.js

\* vscode.postMessage({ type: "update", precision, text })
requestUpdate(prec, text) == JsObject("update", prec, JsString(text))

\* the message postRender posts to the webview
postRender(prec, text) ==
  [type |-> "render", precision |-> prec, vm |-> buildViewModel(text, prec)]

\* a handler that answers an update whatever its precision is
onDidReceiveMessage_AnyPrecision(msg) ==
  IF Falsy(msg) \/ TypeOf(msg) # "object" THEN <<>>
  ELSE IF msg.type = "update"
    THEN <<postRender(msg.precision,
                      IF TypeOf(msg.text) = "string" THEN msg.text.chars ELSE <<>>)>>
  ELSE <<>>

\* the messages the handler of the extension posts for the message msg
onDidReceiveMessage(msg) ==
  IF Falsy(msg) \/ TypeOf(msg) # "object" THEN <<>>
  ELSE IF msg.type = "update"
    THEN IF msg.precision # "float" /\ msg.precision # "double" THEN <<>>
         ELSE <<postRender(msg.precision,
                           IF TypeOf(msg.text) = "string" THEN msg.text.chars ELSE <<>>)>>
  ELSE <<>>

\* the text that replaces one character in escapeHtml
EscapeChar(c) ==
  IF c = "&" THEN <<"&", "a", "m", "p", ";">>
  ELSE IF c = "<" THEN <<"&", "l", "t", ";">>
  ELSE IF c = ">" THEN <<"&", "g", "t", ";">>
  ELSE IF c = "\"" THEN <<"&", "q", "u", "o", "t", ";">>
  ELSE IF c = "'" THEN <<"&", "#", "0", "3", "9", ";">>
  ELSE <<c>>

RECURSIVE EscapeRange(_, _, _)
EscapeRange(s, lo, hi) ==
  IF lo > hi THEN <<>>
  ELSE IF lo = hi THEN EscapeChar(s[lo])
  ELSE EscapeRange(s, lo, (lo + hi) \div 2) \o EscapeRange(s, (lo + hi) \div 2 + 1, hi)

escapeHtml(s) == EscapeRange(s, 1, Len(s))

\* String(n) of an integer
RECURSIVE NatToString(_)
NatToString(n) ==
  IF n < 10 THEN <<HexDigits[n + 1]>>
  ELSE NatToString(n \div 10) \o <<HexDigits[(n % 10) + 1]>>

NumberToString(n) == IF n < 0 THEN <<"-">> \o NatToString(0 - n) ELSE NatToString(n)

\* the decimal digits of the number with the limbs l2, l1, l0 of 15 bits
RECURSIVE LimbsToString(_, _, _)
LimbsToString(l2, l1, l0) ==
  IF l2 = 0 /\ l1 = 0 THEN NatToString(l0)
  ELSE LET t1 == (l2 % 10) * LimbBase + l1
           t0 == (t1 % 10) * LimbBase + l0
       IN  LimbsToString(l2 \div 10, t1 \div 10, t0 \div 10) \o <<HexDigits[(t0 % 10) + 1]>>

\* String(u32) of a 32-bit word
Uint32ToString(u32) ==
  LimbsToString(BitsToInt(SubSeq(u32, 1, 2)), BitsToInt(SubSeq(u32, 3, 17)),
                BitsToInt(SubSeq(u32, 18, 32)))

\* what renderVm writes for the bits b of a Valid view
RenderBits(view, b) ==
  [shows |-> "Valid",
   normalized |-> escapeHtml(view.normalizedText),
   kind |-> b.kind,
   hexGrouped |-> escapeHtml(b.hexGrouped),
   bitsGrouped8 |-> escapeHtml(b.bitsGrouped8),
   s |-> escapeHtml(b.signBitsStr),
   e |-> escapeHtml(b.exponentGrouped4),
   m |-> escapeHtml(b.mantissaGrouped4),
   exponentBits |-> NumberToString(b.exponentBits),
   exponentUnbiased |-> IF b.exponentUnbiased = None THEN <<"-">>
                        ELSE NumberToString(b.exponentUnbiased[1]),
   mantissaExtra |-> IF view.precision = "float"
                       THEN <<NumberToString(b.mantissaBits)>>
                       ELSE <<NumberToString(b.mantissaHigh), Uint32ToString(b.mantissaLow)>>,
   nanPayload |-> IF b.kind = "NaN"
                    THEN <<escapeHtml(b.payloadGrouped4), escapeHtml(b.payloadHexPadded)>>
                    ELSE <<>>]

\* the characters of a message given as one string
Characters(str) == [i \in 1..Len(str) |-> SubSeq(str, i, i)]

\* escapeHtml(vm.message || "")
RenderMessage(view) ==
  IF "message" \in DOMAIN view THEN escapeHtml(Characters(view.message)) ELSE <<>>

\* the content renderVm gives a pane
renderVm(view) ==
  IF Falsy(view) THEN [shows |-> "No data"]
  ELSE IF view.state = "Incomplete"
    THEN [shows |-> "Incomplete", reason |-> RenderMessage(view)]
  ELSE IF view.state = "Invalid"
    THEN [shows |-> "Invalid", reason |-> RenderMessage(view)]
  ELSE RenderBits(view, view.bits)

\* msg.type === "render"
IsRender(msg) == "type" \in DOMAIN msg /\ msg.type = "render"

\* msg.precision === prec
HasPrecision(msg, prec) == "precision" \in DOMAIN msg /\ msg.precision = prec

\* a listener that renders every message into the float pane
messageListener_FloatOnly(msg, fOut, dOut) ==
  IF Falsy(msg) \/ ~IsRender(msg) THEN <<fOut, dOut>>
  ELSE <<renderVm(Get(msg, "vm")), dOut>>

\* the contents of the two panes after the listener of the webview has
\* handled the message msg
messageListener(msg, fOut, dOut) ==
  IF Falsy(msg) \/ ~IsRender(msg) THEN <<fOut, dOut>>
  ELSE IF HasPrecision(msg, "float") THEN <<renderVm(Get(msg, "vm")), dOut>>
  ELSE IF HasPrecision(msg, "double") THEN <<fOut, renderVm(Get(msg, "vm"))>>
  ELSE <<fOut, dOut>>

\* what the user types in one stroke, and what the user pastes
TypedData == {<<"1">>, <<"x">>}

PastedTexts == {<<"-", "x">>}

\* messages that reach the extension from elsewhere than requestUpdate
OtherMessages ==
  { JsNull, JsString(<<"u", "p">>),
    JsObject("render", "float", JsString(<<"1">>)),
    JsObject("update", "half", JsString(<<"1">>)),
    JsObject("update", "float", JsNumber(1)) }

\* the text of the input box of a precision
ValueOf(prec) == IF prec = "float" THEN floatInput ELSE doubleInput

\* the input box of a precision gets the text next, and requestUpdate sends it
InputEvent(prec, next) ==
  /\ IF prec = "float"
       THEN floatInput' = next /\ UNCHANGED doubleInput
       ELSE doubleInput' = next /\ UNCHANGED floatInput
  /\ toExtension' = Append(toExtension, requestUpdate(prec, next))

\* the panel is open and the script of the webview has run: two renders of
\* the empty text are on their way to the webview (postRender of activate),
\* two updates of the empty boxes on their way to the extension
InitPanel ==
  /\ CallerIdle
  /\ moduleDefaults = defaultOptions
  /\ calls = <<>>
  /\ floatInput = <<>>
  /\ doubleInput = <<>>
  /\ floatOut = NoOutput
  /\ doubleOut = NoOutput
  /\ toWebview = <<postRender("float", <<>>), postRender("double", <<>>)>>
  /\ toExtension = <<requestUpdate("float", <<>>), requestUpdate("double", <<>>)>>

\* beforeinput, then input: typed data with a character the filter rejects
\* is not inserted; the caret is at the end of the text
Type ==
  \E prec \in Precision, data \in TypedData :
    /\ Len(ValueOf(prec)) + Len(data) <= MaxField
    /\ Len(toExtension) < MaxQueue
    /\ IF \A i \in 1..Len(data) : allowedChar(data[i])
         THEN InputEvent(prec, ValueOf(prec) \o data)
         ELSE UNCHANGED <<floatInput, doubleInput, toExtension>>
    /\ UNCHANGED <<floatOut, doubleOut, toWebview, callerVars, callVars>>

\* paste: the characters the filter rejects are dropped, the rest is inserted
\* at the end of the text
Paste ==
  \E prec \in Precision, text \in PastedTexts :
    LET filtered == SelectSeq(text, allowedChar)
    IN  /\ Len(ValueOf(prec)) + Len(filtered) <= MaxField
        /\ Len(toExtension) < MaxQueue
        /\ InputEvent(prec, ValueOf(prec) \o filtered)
        /\ UNCHANGED <<floatOut, doubleOut, toWebview, callerVars, callVars>>

\* the last character of a box is deleted
Erase ==
  \E prec \in Precision :
    /\ Len(ValueOf(prec)) > 0
    /\ Len(toExtension) < MaxQueue
    /\ InputEvent(prec, SubSeq(ValueOf(prec), 1, Len(ValueOf(prec)) - 1))
    /\ UNCHANGED <<floatOut, doubleOut, toWebview, callerVars, callVars>>

\* a message of another shape is sent to the extension
PostOther ==
  \E msg \in OtherMessages :
    /\ Len(toExtension) < MaxQueue
    /\ toExtension' = Append(toExtension, msg)
    /\ UNCHANGED <<floatInput, doubleInput, floatOut, doubleOut, toWebview,
                   callerVars, callVars>>

\* the extension takes the next message and posts what its handler posts
ExtensionReceives ==
  /\ toExtension # <<>>
  /\ Len(toWebview) < MaxQueue
  /\ toExtension' = Tail(toExtension)
  /\ toWebview' = toWebview \o onDidReceiveMessage(Head(toExtension))
  /\ UNCHANGED <<floatInput, doubleInput, floatOut, doubleOut, callerVars, callVars>>

\* the webview takes the next message and its listener fills a pane
WebviewReceives ==
  /\ toWebview # <<>>
  /\ toWebview' = Tail(toWebview)
  /\ floatOut' = messageListener(Head(toWebview), floatOut, doubleOut)[1]
  /\ doubleOut' = messageListener(Head(toWebview), floatOut, doubleOut)[2]
  /\ UNCHANGED <<floatInput, doubleInput, toExtension, callerVars, callVars>>

NextEdits == Type \/ Paste \/ Erase \/ ExtensionReceives \/ WebviewReceives

\* the panel with the edits of the user alone
SpecEdits == InitPanel /\ [][NextEdits]_vars

NextPanel == Type \/ PostOther \/ ExtensionReceives \/ WebviewReceives

\* the panel with messages of any shape next to the updates of typed text
SpecPanel == InitPanel /\ [][NextPanel]_vars

Returned == result # Pending

TypeOK ==
  /\ input \in Seq(Alphabet \cup WhiteSpace \cup Digit \cup Alpha)
  /\ opts \in ParseOptions

(* ------------------- the grammar as the claims state it ---------------- *)

AllIn(s, C) == \A i \in 1..Len(s) : s[i] \in C

IsDigits(s) == Len(s) >= 1 /\ AllIn(s, Digit)

\* the text without its optional sign
Unsigned(t) == IF Len(t) > 0 /\ t[1] \in SignChar THEN Tail(t) ELSE t

\* the optional sign of the text
SignOf(t) == IF Len(t) > 0 /\ t[1] \in SignChar THEN <<t[1]>> ELSE <<>>

\* digits, digits., digits.digits or .digits
IsMantissaText(s) ==
  \/ IsDigits(s)
  \/ \E k \in 1..Len(s) :
       /\ s[k] = "."
       /\ AllIn(SubSeq(s, 1, k - 1), Digit)
       /\ AllIn(SubSeq(s, k + 1, Len(s)), Digit)
       /\ Len(s) >= 2

\* [eE][+-]?digits+
IsExponentText(s) == Len(s) >= 2 /\ s[1] \in ExpChar /\ IsDigits(Unsigned(Tail(s)))

\* [+-]?(digits[.digits*] | .digits+)([eE][+-]?digits+)?
GrammarText(t) ==
  LET u == Unsigned(t)
  IN  \E k \in 1..Len(u) :
        /\ k = Len(u) \/ u[k + 1] \in ExpChar
        /\ IsMantissaText(SubSeq(u, 1, k))
        /\ k = Len(u) \/ IsExponentText(SubSeq(u, k + 1, Len(u)))

\* an optionally signed complete mantissa followed by exactly one e or E
MarkerOnlyText(t) ==
  LET u == Unsigned(t)
  IN  Len(u) >= 2 /\ u[Len(u)] \in ExpChar /\ IsMantissaText(SubSeq(u, 1, Len(u) - 1))

\* the same followed by e or E and one + or -
ExponentSignOnlyText(t) ==
  LET u == Unsigned(t)
  IN  /\ Len(u) >= 3 /\ u[Len(u)] \in SignChar /\ u[Len(u) - 1] \in ExpChar
      /\ IsMantissaText(SubSeq(u, 1, Len(u) - 2))

\* one of the in-progress numeric tokens
IncompleteTokenText(t) ==
  \/ t \in {<<"-">>, <<"+">>, <<".">>, <<"-", ".">>, <<"+", ".">>}
  \/ MarkerOnlyText(t)
  \/ ExponentSignOnlyText(t)

NanToken == <<"n", "a", "n">>

InfToken == <<"i", "n", "f">>

InfinityToken == <<"i", "n", "f", "i", "n", "i", "t", "y">>

\* the letter written in small, any other character as it is
Folded(c) ==
  IF \E i \in 1..26 : UpperLetters[i] = c
    THEN LowerLetters[CHOOSE i \in 1..26 : UpperLetters[i] = c]
    ELSE c

\* the text after the optional sign, letter case ignored
FoldedBody(t) == LET u == Unsigned(t) IN [i \in 1..Len(u) |-> Folded(u[i])]

\* an optionally signed special token, or a non-empty prefix of one, in any case
SpecialOrPrefixText(t) ==
  LET b == FoldedBody(t)
  IN  Len(b) >= 1 /\ (StartsWith(NanToken, b) \/ StartsWith(InfinityToken, b))

\* the input without its surrounding whitespace
Stripped(s) ==
  LET nw == {i \in 1..Len(s) : s[i] \notin WhiteSpace}
  IN  IF nw = {} THEN <<>> ELSE SubSeq(s, Min(nw), Max(nw))

Kinds == {"Valid", "Incomplete", "Invalid"}

Reasons ==
  {"empty", "leading plus is not allowed", "incomplete NaN token", "incomplete Infinity token",
   "incomplete Inf token", "sign only", "dot only", "exponent marker only", "exponent sign only",
   "invalid numeric syntax", "parsed to NaN", "infinity is not allowed"}

Chars == Alphabet \cup WhiteSpace \cup Digit \cup Alpha

(* -------------------------------- claims ------------------------------- *)

\* C1: for every input and every combination of the four options the call
\* returns a result of exactly one kind among Valid, Incomplete and Invalid;
\* normalizedText is always a string, a reason is present for Incomplete and
\* Invalid, and a value is present for Valid.
C1_TotalTriState ==
  Returned =>
    /\ result.kind \in Kinds
    /\ "normalizedText" \in DOMAIN result
    /\ result.normalizedText \in Seq(Chars)
    /\ result.kind \in {"Incomplete", "Invalid"} =>
         "reason" \in DOMAIN result /\ result.reason \in Reasons
    /\ result.kind = "Valid" =>
         "value" \in DOMAIN result /\ result.value.cls \in {"NaN", "Infinity", "Finite"}

C1_Witness ==
  /\ Returned
  /\ ~opts.allowNaN /\ ~opts.caseInsensitiveSpecials
  /\ result.kind = "Invalid"
  /\ Len(input) = 3 /\ FoldedBody(input) = NanToken

\* C2: under the default options every trimmed text of the decimal grammar is
\* Valid, and every non-empty text that is neither of the grammar, nor a
\* special token or a prefix of one, nor an in-progress numeric token is
\* Invalid with reason "invalid numeric syntax".
C2_GrammarDecides ==
  (Returned /\ opts = defaultOptions) =>
    LET t == Stripped(input)
    IN  /\ GrammarText(t) => result.kind = "Valid"
        /\ (t # <<>> /\ ~GrammarText(t) /\ ~SpecialOrPrefixText(t) /\ ~IncompleteTokenText(t)) =>
             result = InvalidResult("invalid numeric syntax", t)

C2_Witness ==
  /\ Returned /\ opts = defaultOptions
  /\ input = <<"-", "1", ".", "2", "E", "+", "8">>
  /\ result.kind = "Valid"

\* C3: under the default options "-" and "+" are Incomplete "sign only"; ".",
\* "-." and "+." are Incomplete "dot only"; a signed complete mantissa followed
\* by one e or E is Incomplete "exponent marker only", and followed by e or E
\* and one sign is Incomplete "exponent sign only"; a marker with no digit
\* before it ("e", ".e") is not Incomplete.
C3_InProgressTokens ==
  (Returned /\ opts = defaultOptions) =>
    LET t == Stripped(input)
    IN  /\ t \in {<<"-">>, <<"+">>} => result = IncompleteResult("sign only", t)
        /\ t \in {<<".">>, <<"-", ".">>, <<"+", ".">>} => result = IncompleteResult("dot only", t)
        /\ MarkerOnlyText(t) => result = IncompleteResult("exponent marker only", t)
        /\ ExponentSignOnlyText(t) => result = IncompleteResult("exponent sign only", t)
        /\ Unsigned(t) \in {<<"e">>, <<"E">>, <<".", "e">>, <<".", "E">>} =>
             result.kind # "Incomplete"

C3_Witness ==
  /\ Returned /\ opts = defaultOptions
  /\ input = <<".", "5", "E", "+">>
  /\ result.kind = "Incomplete" /\ result.reason = "exponent sign only"

\* C4: under the default options an optional sign followed by nan in any case
\* is Valid with value NaN and text sign + "NaN"; followed by inf or infinity
\* it is Valid with value -Infinity for the sign "-" and +Infinity otherwise,
\* and text sign + "Infinity".
C4_SpecialTokens ==
  (Returned /\ opts = defaultOptions) =>
    LET t == Stripped(input)
    IN  /\ FoldedBody(t) = NanToken =>
             result = ValidResult(NaNValue, SignOf(t) \o <<"N", "a", "N">>)
        /\ FoldedBody(t) \in {InfToken, InfinityToken} =>
             result = ValidResult(InfinityValue(SignOf(t) = <<"-">>),
                                  SignOf(t) \o <<"I", "n", "f", "i", "n", "i", "t", "y">>)

C4_Witness ==
  /\ Returned /\ opts = defaultOptions
  /\ input = <<"-", "i", "N", "f">>
  /\ result.kind = "Valid" /\ result.value = InfinityValue(TRUE)

\* C5: under the default options an optional sign followed by n or na (any
\* case) is Incomplete "incomplete NaN token"; followed by a proper prefix of
\* infinity other than inf it is Incomplete "incomplete Infinity token"; and
\* inf itself is Valid.
C5_SpecialPrefixes ==
  (Returned /\ opts = defaultOptions) =>
    LET t == Stripped(input)
        b == FoldedBody(t)
    IN  /\ (Len(b) \in 1..2 /\ StartsWith(NanToken, b)) =>
             result = IncompleteResult("incomplete NaN token", t)
        /\ (Len(b) \in 1..7 /\ Len(b) # 3 /\ StartsWith(InfinityToken, b)) =>
             result = IncompleteResult("incomplete Infinity token", t)
        /\ b = InfToken => result.kind = "Valid"

C5_Witness ==
  /\ Returned /\ opts = defaultOptions
  /\ FoldedBody(Stripped(input)) = <<"i", "n", "f", "i", "n", "i">>
  /\ SignOf(input) = <<"-">>
  /\ result.kind = "Incomplete"

\* C6 as stated: for every option combination, no proper prefix of an input
\* classified Valid is classified Invalid.
C6_Original ==
  (Returned /\ result.kind = "Valid") =>
    \A k \in 1..(Len(input) - 1) :
      ParseFloatingInput(SubSeq(input, 1, k), opts).kind # "Invalid"

\* the options under which every prefix of a special token is recognised, or
\* no special token is accepted at all
PrefixesTracked(o) ==
  o.caseInsensitiveSpecials \/ (~o.allowNaN /\ ~o.allowInfinitySynonyms)

\* C6 (amended): when caseInsensitiveSpecials is true, or allowNaN and
\* allowInfinitySynonyms are both false, a proper prefix of an input classified
\* Valid is never classified Invalid, unless the prefix is Invalid for the
\* reason "infinity is not allowed".
C6_NoValidAfterInvalid ==
  (Returned /\ result.kind = "Valid" /\ PrefixesTracked(opts)) =>
    \A k \in 1..(Len(input) - 1) :
      LET r == ParseFloatingInput(SubSeq(input, 1, k), opts)
      IN  r.kind = "Invalid" => r.reason = "infinity is not allowed"

C6_Witness ==
  /\ Returned /\ result.kind = "Valid" /\ opts.caseInsensitiveSpecials
  /\ ~opts.allowInfinitySynonyms
  /\ Len(input) > LongZeros
  /\ \E k \in 1..(Len(input) - 1) :
       ParseFloatingInput(SubSeq(input, 1, k), opts).kind = "Invalid"
  /\ \E k \in 1..(Len(input) - 1) :
       ParseFloatingInput(SubSeq(input, 1, k), opts).kind = "Incomplete"

\* the texts tried as the rest of an Incomplete text
Completions ==
  { <<"0">>, <<"1">>, <<"9", "9", "9">>, <<"-", "9", "9", "9">>,
    <<"n">>, <<"a", "n">>, <<"f">>, <<"n", "f">>,
    <<"y">>, <<"t", "y">>, <<"i", "t", "y">>, <<"n", "i", "t", "y">>,
    <<"i", "n", "i", "t", "y">>, <<"f", "i", "n", "i", "t", "y">>,
    <<"n", "f", "i", "n", "i", "t", "y">> }

\* some completion of the text is classified Valid
HasValidCompletion(t, o) ==
  \E c \in Completions : ParseFloatingInput(t \o c, o).kind = "Valid"

\* C7 as stated: for every option combination the normalizedText of an
\* Incomplete result is a proper prefix of a text classified Valid.
C7_Original ==
  (Returned /\ result.kind = "Incomplete") =>
    HasValidCompletion(result.normalizedText, opts)

\* the text is a mantissa that alone converts to an infinity, followed by e+ or E+
OverflowingThenPlus(t) ==
  /\ ExponentSignOnlyText(t)
  /\ t[Len(t)] = "+"
  /\ Number(SubSeq(t, 1, Len(t) - 2)).cls = "Infinity"

\* C7 (amended): the normalizedText of an Incomplete result is a proper prefix
\* of a text classified Valid, except when allowInfinitySynonyms is false and
\* the text is a mantissa that already overflows followed by e+ or E+.
C7_IncompleteIsPrefix ==
  (Returned /\ result.kind = "Incomplete"
     /\ ~(~opts.allowInfinitySynonyms /\ OverflowingThenPlus(result.normalizedText))) =>
    HasValidCompletion(result.normalizedText, opts)

C7_Witness ==
  /\ Returned /\ result.kind = "Incomplete"
  /\ ~opts.allowInfinitySynonyms
  /\ result.reason = "exponent sign only"
  /\ Len(input) > LongZeros
  /\ HasValidCompletion(result.normalizedText, opts)

\* C8: the result depends only on the input without its surrounding
\* whitespace; an empty or whitespace-only input is Incomplete "empty" with
\* normalizedText ""; every Incomplete or Invalid result carries the trimmed
\* input as normalizedText.
C8_TrimOnly ==
  Returned =>
    LET t == Stripped(input)
    IN  /\ result = ParseFloatingInput(t, opts)
        /\ t = <<>> => result = IncompleteResult("empty", <<>>)
        /\ result.kind \in {"Incomplete", "Invalid"} => result.normalizedText = t

C8_Witness ==
  /\ Returned
  /\ input = <<" ", "+", "i", "n", "f", "\t">>
  /\ result.kind = "Invalid" /\ result.normalizedText = <<"+", "i", "n", "f">>

\* C9: when allowLeadingPlus is false every non-empty trimmed text that starts
\* with "+" is Invalid "leading plus is not allowed" with the trimmed text as
\* normalizedText, whatever follows the "+".
C9_LeadingPlusWins ==
  (Returned /\ ~opts.allowLeadingPlus) =>
    LET t == Stripped(input)
    IN  (Len(t) > 0 /\ t[1] = "+") =>
          result = InvalidResult("leading plus is not allowed", t)

C9_Witness ==
  /\ Returned /\ ~opts.allowLeadingPlus
  /\ opts.allowNaN /\ opts.caseInsensitiveSpecials
  /\ Stripped(input) = <<"+", "n", "A", "n">>
  /\ result.kind = "Invalid"

\* C10: when allowInfinitySynonyms is false no result is Valid with an
\* infinite value: inf and infinity, signed or not, are Invalid, and a text
\* that passes the syntax check and converts to an infinity is Invalid
\* "infinity is not allowed".
C10_NoInfinity ==
  (Returned /\ ~opts.allowInfinitySynonyms) =>
    LET t == Stripped(input)
    IN  /\ ~(result.kind = "Valid" /\ result.value.cls = "Infinity")
        /\ FoldedBody(t) \in {InfToken, InfinityToken} => result.kind = "Invalid"
        /\ (GrammarText(t) /\ (opts.allowLeadingPlus \/ t[1] # "+")
              /\ Number(t).cls = "Infinity") =>
             result = InvalidResult("infinity is not allowed", t)

C10_Witness ==
  /\ Returned /\ ~opts.allowInfinitySynonyms
  /\ input = <<"1", ".", "8", "e", "3", "0", "8">>
  /\ result.kind = "Invalid" /\ result.reason = "infinity is not allowed"

\* C11 as stated: with allowLeadingPlus true the normalizedText of a Valid
\* result never starts with "+", and an input with and without its leading "+"
\* has the same normalizedText when both are Valid.
C11_Original ==
  (Returned /\ opts.allowLeadingPlus /\ result.kind = "Valid") =>
    LET t == Stripped(input)
        u == ParseFloatingInput(Tail(t), opts)
    IN  /\ result.normalizedText[1] # "+"
        /\ (t[1] = "+" /\ u.kind = "Valid") => u.normalizedText = result.normalizedText

\* C11 (amended): with allowLeadingPlus true the normalizedText of a Valid
\* decimal literal never starts with "+", and the literal with and without its
\* leading "+" is Valid with the same normalizedText; a special token keeps
\* the sign that was typed, "+" included.
C11_PlusStripped ==
  (Returned /\ opts.allowLeadingPlus /\ result.kind = "Valid") =>
    LET t == Stripped(input)
        u == ParseFloatingInput(Tail(t), opts)
    IN  /\ GrammarText(t) =>
             /\ result.normalizedText[1] # "+"
             /\ t[1] = "+" => u.kind = "Valid" /\ u.normalizedText = result.normalizedText
        /\ ~GrammarText(t) =>
             SignOf(result.normalizedText) = SignOf(t)

C11_Witness ==
  /\ Returned /\ opts.allowLeadingPlus /\ ~opts.allowInfinitySynonyms
  /\ result.kind = "Valid"
  /\ Stripped(input) = <<"+", ".", "1">>
  /\ result.normalizedText = <<".", "1">>

\* C12: for every option combination, parsing the normalizedText of a Valid
\* result again with the same options is Valid with the same value and the
\* same normalizedText.
C12_NormalizationIdempotent ==
  (Returned /\ result.kind = "Valid") =>
    LET again == ParseFloatingInput(result.normalizedText, opts)
    IN  /\ again.kind = "Valid"
        /\ again.value = result.value
        /\ again.normalizedText = result.normalizedText

C12_Witness ==
  /\ Returned /\ result.kind = "Valid"
  /\ ~opts.caseInsensitiveSpecials
  /\ input = <<"I", "n", "f">>
  /\ result.normalizedText # input
  /\ ParseFloatingInput(result.normalizedText, opts) = result

(* ------------------- the claims about the bit extractor ----------------- *)

\* the bit informations of each width that the state holds
Bits32 ==
  (IF f32 # NoBits THEN {f32} ELSE {})
    \cup (IF vm.state = "Valid" /\ vm.precision = "float" THEN {vm.bits} ELSE {})

Bits64 ==
  (IF f64 # NoBits THEN {f64} ELSE {})
    \cup (IF vm.state = "Valid" /\ vm.precision = "double" THEN {vm.bits} ELSE {})

\* the kind that the claim gives to an exponent field and a mantissa
KindOf(exponent, allOnes, mantissaIsZero) ==
  CASE exponent = 0 /\ mantissaIsZero -> "Zero"
    [] exponent = 0 /\ ~mantissaIsZero -> "Subnormal"
    [] exponent = allOnes /\ mantissaIsZero -> "Infinity"
    [] exponent = allOnes /\ ~mantissaIsZero -> "NaN"
    [] OTHER -> "Normal"

\* C13: at either width kind is decided by the exponent and mantissa fields
\* alone (0/0 Zero, 0/nonzero Subnormal, all ones/0 Infinity, all ones/nonzero
\* NaN, otherwise Normal), the 64-bit mantissa being zero only when both
\* mantissaHigh and mantissaLow are zero; the sign bit has no part in it.
C13_KindByFields ==
  /\ \A b \in Bits32 : b.kind = KindOf(b.exponentBits, 255, b.mantissaBits = 0)
  /\ \A b \in Bits64 :
       b.kind = KindOf(b.exponentBits, 2047,
                       b.mantissaHigh = 0 /\ \A i \in 1..32 : b.mantissaLow[i] = 0)

\* a negative subnormal double whose mantissa lies in the low word only, which
\* narrows to the negative zero
C13_Witness ==
  /\ f64 # NoBits /\ f32 # NoBits
  /\ f64.signBit = 1 /\ f64.exponentBits = 0 /\ f64.mantissaHigh = 0
  /\ f64.mantissaLow # Zeros(32) /\ f64.kind = "Subnormal"
  /\ f32.signBit = 1 /\ f32.kind = "Zero"

\* C14: exponentUnbiased is null exactly for Zero, Infinity and NaN; for
\* Normal it is exponentBits - 127 (within -126..127) at 32-bit and
\* exponentBits - 1023 (within -1022..1023) at 64-bit; for Subnormal it is
\* -126 at 32-bit and -1022 at 64-bit.
C14_ExponentUnbiased ==
  /\ \A b \in Bits32 :
       /\ b.exponentUnbiased = <<>> <=> b.kind \in {"Zero", "Infinity", "NaN"}
       /\ b.kind = "Normal" =>
            /\ b.exponentUnbiased = <<b.exponentBits - 127>>
            /\ b.exponentBits - 127 \in (0 - 126)..127
       /\ b.kind = "Subnormal" => b.exponentUnbiased = <<0 - 126>>
  /\ \A b \in Bits64 :
       /\ b.exponentUnbiased = <<>> <=> b.kind \in {"Zero", "Infinity", "NaN"}
       /\ b.kind = "Normal" =>
            /\ b.exponentUnbiased = <<b.exponentBits - 1023>>
            /\ b.exponentBits - 1023 \in (0 - 1022)..1023
       /\ b.kind = "Subnormal" => b.exponentUnbiased = <<0 - 1022>>

\* a double of exponent -149, normal at 64-bit and subnormal at 32-bit
C14_Witness ==
  /\ f64 # NoBits /\ f32 # NoBits
  /\ f64.kind = "Normal" /\ f64.exponentUnbiased = <<0 - 149>>
  /\ f32.kind = "Subnormal" /\ f32.exponentUnbiased = <<0 - 126>>

\* the w binary digits of n, for n below 2^w
BinaryText(n, w) ==
  [i \in 1..w |-> IF (n \div (2 ^ (w - i))) % 2 = 1 THEN "1" ELSE "0"]

\* the binary digits of a 32-bit word
WordText(word) == [i \in 1..Len(word) |-> IF word[i] = 1 THEN "1" ELSE "0"]

LowerHex == <<"0", "1", "2", "3", "4", "5", "6", "7", "8", "9", "a", "b", "c", "d", "e", "f">>

\* the lowercase hex digits of a text of 4k binary digits
HexOfBinary(t) ==
  LET d(i) == IF t[i] = "1" THEN 1 ELSE 0
  IN  [k \in 1..(Len(t) \div 4) |->
         LowerHex[8 * d(4 * k - 3) + 4 * d(4 * k - 2) + 2 * d(4 * k - 1) + d(4 * k) + 1]]

\* C15: the raw representations describe one word and reassemble it: at
\* 32-bit signBit*2^31 + exponentBits*2^23 + mantissaBits (fields within 0..1,
\* 0..255, 0..2^23-1) is the word written by hex (8 lowercase digits) and by
\* bits (32 digits); at 64-bit the high word is signBit*2^31 +
\* exponentBits*2^20 + mantissaHigh and the low word is mantissaLow, hex has 16
\* digits and bits 64; signBitsStr, exponentBitsStr and mantissaBitsStr have
\* lengths 1/8/23 or 1/11/52 and concatenate to bits.
C15_RawReassemble ==
  /\ \A b \in Bits32 :
       LET word == BinaryText(b.signBit, 1) \o BinaryText(b.exponentBits, 8)
                     \o BinaryText(b.mantissaBits, 23)
       IN  /\ b.signBit \in 0..1 /\ b.exponentBits \in 0..255
           /\ b.mantissaBits \in 0..(2 ^ 23 - 1)
           /\ b.bits = word /\ Len(b.bits) = 32
           /\ b.hex = HexOfBinary(word) /\ Len(b.hex) = 8
           /\ b.signBitsStr \o b.exponentBitsStr \o b.mantissaBitsStr = b.bits
           /\ Len(b.signBitsStr) = 1 /\ Len(b.exponentBitsStr) = 8
           /\ Len(b.mantissaBitsStr) = 23
  /\ \A b \in Bits64 :
       LET high == BinaryText(b.signBit, 1) \o BinaryText(b.exponentBits, 11)
                     \o BinaryText(b.mantissaHigh, 20)
           low  == WordText(b.mantissaLow)
       IN  /\ b.signBit \in 0..1 /\ b.exponentBits \in 0..2047
           /\ b.mantissaHigh \in 0..(2 ^ 20 - 1)
           /\ b.mantissaLow \in [1..32 -> Bit]
           /\ b.bits = high \o low /\ Len(b.bits) = 64
           /\ b.hex = HexOfBinary(high \o low) /\ Len(b.hex) = 16
           /\ b.signBitsStr \o b.exponentBitsStr \o b.mantissaBitsStr = b.bits
           /\ Len(b.signBitsStr) = 1 /\ Len(b.exponentBitsStr) = 11
           /\ Len(b.mantissaBitsStr) = 52

\* the double bff0000000000001, whose low word needs its leading zeros, and
\* its narrowing bf800000
C15_Witness ==
  /\ f64 # NoBits /\ f32 # NoBits
  /\ f64.hex = <<"b", "f", "f", "0", "0", "0", "0", "0", "0", "0", "0", "0", "0", "0", "0", "1">>
  /\ f64.mantissaHigh = 0 /\ f64.mantissaLow = Zeros(31) \o <<1>>
  /\ f32.hex = <<"b", "f", "8", "0", "0", "0", "0", "0">>

\* the number written by the bits from..to of an encoding
RECURSIVE FieldValue(_, _, _)
FieldValue(bits, from, to) ==
  IF from > to THEN 0 ELSE 2 * FieldValue(bits, from, to - 1) + bits[to]

\* the text of the input box without the surrounding white space, when a view
\* model has been built from it
Shown(t) == vm.state = "Valid" /\ Stripped(input) = t

\* C16: a number that is exactly (-1)^s * (1 + M/2^52) * 2^(E-1023) gives
\* signBit s, exponentBits E and the mantissa M (split into mantissaHigh and
\* mantissaLow) at 64-bit, and, when it is exactly (-1)^s * (1 + m/2^23) *
\* 2^(e-127) with 1 <= e <= 254, signBit s, exponentBits e, mantissaBits m and
\* kind Normal at 32-bit; so "1.0" shows 3f800000 / 3ff0000000000000 and
\* "-1.25" shows bfa00000 / bff4000000000000.
C16_ExactFields ==
  /\ (f64 # NoBits /\ number.cls = "Binary64"
        /\ FieldValue(number.bits, 2, 12) \in 1..2046) =>
       /\ f64.signBit = number.bits[1]
       /\ f64.exponentBits = FieldValue(number.bits, 2, 12)
       /\ f64.mantissaHigh = FieldValue(number.bits, 13, 32)
       /\ f64.mantissaLow = SubSeq(number.bits, 33, 64)
       /\ f64.kind = "Normal"
  /\ (f32 # NoBits /\ number.cls = "Binary64"
        /\ FieldValue(number.bits, 2, 12) - 1023 + 127 \in 1..254
        /\ FieldValue(number.bits, 36, 64) = 0) =>
       /\ f32.signBit = number.bits[1]
       /\ f32.exponentBits = FieldValue(number.bits, 2, 12) - 1023 + 127
       /\ f32.mantissaBits = FieldValue(number.bits, 13, 35)
       /\ f32.kind = "Normal"
  /\ Shown(<<"1", ".", "0">>) =>
       vm.bits.hex = IF precision = "float"
                       THEN <<"3", "f", "8", "0", "0", "0", "0", "0">>
                       ELSE <<"3", "f", "f", "0", "0", "0", "0", "0",
                              "0", "0", "0", "0", "0", "0", "0", "0">>
  /\ Shown(<<"-", "1", ".", "2", "5">>) =>
       vm.bits.hex = IF precision = "float"
                       THEN <<"b", "f", "a", "0", "0", "0", "0", "0">>
                       ELSE <<"b", "f", "f", "4", "0", "0", "0", "0",
                              "0", "0", "0", "0", "0", "0", "0", "0">>

\* "-1.25" shown at float
C16_Witness ==
  /\ Shown(<<"-", "1", ".", "2", "5">>) /\ precision = "float"
  /\ vm.bits.signBit = 1 /\ vm.bits.exponentBits = 127
  /\ vm.bits.mantissaBits = 2 ^ 21 /\ vm.bits.kind = "Normal"

\* C17: a Valid input whose value is +Infinity or -Infinity has kind Infinity
\* at both widths (exponent all ones, mantissa 0; +Infinity is 7f800000 and
\* 7ff0000000000000), and a Valid input whose value is NaN has kind NaN with
\* hex 7fc00000 at float and 7ff8000000000000 at double.
C17_SpecialValues ==
  /\ (vm.state = "Valid" /\ vm.value.cls = "Infinity") =>
       /\ vm.bits.kind = "Infinity"
       /\ precision = "float" =>
            /\ vm.bits.exponentBits = 255 /\ vm.bits.mantissaBits = 0
            /\ ~vm.value.neg => vm.bits.hex = <<"7", "f", "8", "0", "0", "0", "0", "0">>
       /\ precision = "double" =>
            /\ vm.bits.exponentBits = 2047 /\ vm.bits.mantissaHigh = 0
            /\ \A i \in 1..32 : vm.bits.mantissaLow[i] = 0
            /\ ~vm.value.neg =>
                 vm.bits.hex = <<"7", "f", "f", "0", "0", "0", "0", "0",
                                 "0", "0", "0", "0", "0", "0", "0", "0">>
  /\ (vm.state = "Valid" /\ vm.value.cls = "NaN") =>
       /\ vm.bits.kind = "NaN"
       /\ vm.bits.hex = IF precision = "float"
                          THEN <<"7", "f", "c", "0", "0", "0", "0", "0">>
                          ELSE <<"7", "f", "f", "8", "0", "0", "0", "0",
                                 "0", "0", "0", "0", "0", "0", "0", "0">>

\* "-NaN" shown at float: the sign stays in the text, the value is NaN
C17_Witness ==
  /\ Shown(<<"-", "N", "a", "N">>) /\ precision = "float"
  /\ vm.value.cls = "NaN" /\ vm.bits.kind = "NaN" /\ vm.bits.signBit = 0

(* The magnitude of a finite double is ordered as the triple of its        *)
(* exponent field, the upper 23 bits of its mantissa and the lower 29 bits. *)
(* The magnitude of a binary32 is ordered as its code, exponentBits * 2^23  *)
(* + mantissaBits, the code 255 * 2^23 standing for 2^128.                  *)

MagnitudeKey(b64) ==
  <<FieldValue(b64, 2, 12), FieldValue(b64, 13, 35), FieldValue(b64, 36, 64)>>

KeyLess(a, b) ==
  \/ a[1] < b[1]
  \/ a[1] = b[1] /\ a[2] < b[2]
  \/ a[1] = b[1] /\ a[2] = b[2] /\ a[3] < b[3]

KeyLeq(a, b) == a = b \/ KeyLess(a, b)

\* the position of the leading bit of j, for 0 < j < 2^25
LeadingBit(j) == CHOOSE p \in 0..24 : 2 ^ p <= j /\ j < 2 ^ (p + 1)

\* the double halfway between the binary32 of code k and the next one above:
\* (2^24 + 2m + 1) * 2^(e-151) for a normal one, (2m + 1) * 2^-150 for a
\* subnormal one or zero
MidAbove(k) ==
  LET e == k \div (2 ^ 23)
      m == k % (2 ^ 23)
      j == 2 * m + 1
      p == LeadingBit(j)
  IN  IF e >= 1 THEN <<e + 896, m, 2 ^ 28>>
      ELSE <<873 + p, (j - 2 ^ p) * (2 ^ (23 - p)), 0>>

\* the largest finite binary32, the halfway point from it to 2^128, and the
\* smallest subnormal and its half, as doubles
MaxFloat32 == <<1150, 2 ^ 23 - 1, 0>>

OverflowPoint == <<1150, 2 ^ 23 - 1, 2 ^ 28>>

MinSubnormal32 == <<874, 0, 0>>

HalfMinSubnormal32 == <<873, 0, 0>>

\* the finite doubles given to float32Bits, each with the information returned
Narrowed ==
  { p \in ((IF f32 # NoBits THEN {<<Binary64(number), f32>>} ELSE {})
            \cup (IF vm.state = "Valid" /\ vm.precision = "float"
                    THEN {<<Binary64(vm.value), vm.bits>>} ELSE {})) :
      FieldValue(p[1], 2, 12) # 2047 }

\* the code k is that of the binary32 nearest to the double of key d, the even
\* one of two that are equally near
Nearest(d, k) ==
  /\ k <= 255 * (2 ^ 23)
  /\ k < 255 * (2 ^ 23) => KeyLeq(d, MidAbove(k)) /\ (d = MidAbove(k) => k % 2 = 0)
  /\ k > 0 => KeyLeq(MidAbove(k - 1), d) /\ (d = MidAbove(k - 1) => k % 2 = 0)

\* C18 as stated: float32Bits encodes the binary32 nearest to the double, ties
\* to the even mantissa; a double whose magnitude exceeds the binary32 range
\* encodes as Infinity and one below the smallest binary32 subnormal as Zero,
\* the sign bit being kept.
C18_Original ==
  \A p \in Narrowed :
    LET d == MagnitudeKey(p[1])
        b == p[2]
    IN  /\ Nearest(d, b.exponentBits * (2 ^ 23) + b.mantissaBits)
        /\ b.signBit = p[1][1]
        /\ KeyLess(MaxFloat32, d) => b.kind = "Infinity"
        /\ KeyLess(d, MinSubnormal32) => b.kind = "Zero"

\* C18: float32Bits encodes the binary32 nearest to the double, ties to the
\* even mantissa, and keeps the sign bit; a double of magnitude 2^128 - 2^103
\* or more encodes as Infinity and one of magnitude 2^-150 or less as Zero,
\* while the doubles between the largest finite binary32 and 2^128 - 2^103
\* encode as the largest finite binary32 and those between 2^-150 and 2^-149
\* as the smallest subnormal.
C18_NearestEven ==
  \A p \in Narrowed :
    LET d == MagnitudeKey(p[1])
        b == p[2]
    IN  /\ Nearest(d, b.exponentBits * (2 ^ 23) + b.mantissaBits)
        /\ b.signBit = p[1][1]
        /\ KeyLeq(OverflowPoint, d) => b.kind = "Infinity"
        /\ KeyLeq(d, HalfMinSubnormal32) => b.kind = "Zero"
        /\ (KeyLess(MaxFloat32, d) /\ KeyLess(d, OverflowPoint)) =>
             b.exponentBits = 254 /\ b.mantissaBits = 2 ^ 23 - 1
        /\ (KeyLess(HalfMinSubnormal32, d) /\ KeyLess(d, MinSubnormal32)) =>
             b.exponentBits = 0 /\ b.mantissaBits = 1

\* a tie: the double (1 + 3 * 2^-24) lies halfway between the binary32 of
\* mantissa 1 and of mantissa 2 and is encoded with mantissa 2
C18_Witness ==
  /\ f32 # NoBits /\ number.cls = "Binary64"
  /\ MagnitudeKey(number.bits) = <<1023, 1, 2 ^ 28>>
  /\ f32.exponentBits = 127 /\ f32.mantissaBits = 2

\* the text raw cut into groups of the given sizes, one space between groups
RECURSIVE Spaced(_, _)
Spaced(raw, sizes) ==
  IF Len(sizes) <= 1 THEN raw
  ELSE SubSeq(raw, 1, sizes[1]) \o <<" ">>
         \o Spaced(SubSeq(raw, sizes[1] + 1, Len(raw)), Tail(sizes))

Times(n, size) == [i \in 1..n |-> size]

IsSpace(c) == c = " "

NoSpaces(t) == SelectSeq(t, LAMBDA c : ~IsSpace(c))

\* C19: each grouped string is its raw string with single spaces at fixed
\* places: hexGrouped in groups of 2 (4 groups at 32-bit, 8 at 64-bit),
\* bitsGrouped8 in groups of 8, exponentGrouped4 as 4+4 at 32-bit and 3+4+4 at
\* 64-bit, mantissaGrouped4 as five groups of 4 and one of 3 at 32-bit and
\* thirteen groups of 4 at 64-bit; without the spaces they are hex, bits,
\* exponentBitsStr and mantissaBitsStr; 1.0 at float shows "3f 80 00 00".
C19_Grouping ==
  /\ \A b \in Bits32 :
       /\ b.hexGrouped = Spaced(b.hex, Times(4, 2))
       /\ b.bitsGrouped8 = Spaced(b.bits, Times(4, 8))
       /\ b.exponentGrouped4 = Spaced(b.exponentBitsStr, <<4, 4>>)
       /\ b.mantissaGrouped4 = Spaced(b.mantissaBitsStr, <<4, 4, 4, 4, 4, 3>>)
       /\ NoSpaces(b.hexGrouped) = b.hex /\ NoSpaces(b.bitsGrouped8) = b.bits
       /\ NoSpaces(b.exponentGrouped4) = b.exponentBitsStr
       /\ NoSpaces(b.mantissaGrouped4) = b.mantissaBitsStr
  /\ \A b \in Bits64 :
       /\ b.hexGrouped = Spaced(b.hex, Times(8, 2))
       /\ b.bitsGrouped8 = Spaced(b.bits, Times(8, 8))
       /\ b.exponentGrouped4 = Spaced(b.exponentBitsStr, <<3, 4, 4>>)
       /\ b.mantissaGrouped4 = Spaced(b.mantissaBitsStr, Times(13, 4))
       /\ NoSpaces(b.hexGrouped) = b.hex /\ NoSpaces(b.bitsGrouped8) = b.bits
       /\ NoSpaces(b.exponentGrouped4) = b.exponentBitsStr
       /\ NoSpaces(b.mantissaGrouped4) = b.mantissaBitsStr
  /\ (Shown(<<"1", ".", "0">>) /\ precision = "float") =>
       vm.bits.hexGrouped = <<"3", "f", " ", "8", "0", " ", "0", "0", " ", "0", "0">>

\* "-1.25" at float: the mantissa 0100 0000 0000 0000 0000 000
C19_Witness ==
  /\ Shown(<<"-", "1", ".", "2", "5">>) /\ precision = "float"
  /\ vm.bits.hexGrouped = <<"b", "f", " ", "a", "0", " ", "0", "0", " ", "0", "0">>
  /\ vm.bits.exponentGrouped4 = <<"0", "1", "1", "1", " ", "1", "1", "1", "1">>
  /\ Len(vm.bits.mantissaGrouped4) = 28
  /\ SubSeq(vm.bits.mantissaGrouped4, 1, 5) = <<"0", "1", "0", "0", " ">>
  /\ SubSeq(vm.bits.mantissaGrouped4, 25, 28) = <<" ", "0", "0", "0">>

\* C20: whatever the kind, payloadBitsStr is mantissaBitsStr, payloadGrouped4
\* is mantissaGrouped4, and payloadHexPadded is the mantissa as an unsigned
\* integer in lowercase hex, padded with zeros on the left to 6 digits at
\* 32-bit and to 13 digits at 64-bit.
C20_Payload ==
  /\ \A b \in Bits32 :
       /\ b.payloadBitsStr = b.mantissaBitsStr
       /\ b.payloadGrouped4 = b.mantissaGrouped4
       /\ b.payloadHexPadded = HexOfBinary(BinaryText(b.mantissaBits, 24))
       /\ Len(b.payloadHexPadded) = 6
  /\ \A b \in Bits64 :
       /\ b.payloadBitsStr = b.mantissaBitsStr
       /\ b.payloadGrouped4 = b.mantissaGrouped4
       /\ b.payloadHexPadded =
            HexOfBinary(BinaryText(b.mantissaHigh, 20) \o WordText(b.mantissaLow))
       /\ Len(b.payloadHexPadded) = 13

\* the number 1 + 2^-23 (Normal): mantissa 1 at 32-bit, 2^29 at 64-bit
C20_Witness ==
  /\ f32 # NoBits /\ f64 # NoBits
  /\ f32.kind = "Normal" /\ f32.mantissaBits = 1
  /\ f32.payloadHexPadded = <<"0", "0", "0", "0", "0", "1">>
  /\ f64.payloadHexPadded =
       <<"0", "0", "0", "0", "0", "2", "0", "0", "0", "0", "0", "0", "0">>

(* --------------------- the claims about the view ------------------------ *)

\* the view of the text has been built
Built == vm # NoViewModel

\* what the classifier returns for the text of the input box
Parsed == ParseFloatingInput(input, defaultOptions)

\* C21: when the classifier returns Incomplete or Invalid for the text, the
\* view has that kind as its state, the normalizedText of the classifier
\* and its reason as the message, and nothing else: no value, no precision
\* and no bits, at either precision.
C21_PassThrough ==
  (Built /\ Parsed.kind \in {"Incomplete", "Invalid"}) =>
    /\ DOMAIN vm = {"state", "normalizedText", "message"}
    /\ vm.state = Parsed.kind
    /\ vm.normalizedText = Parsed.normalizedText
    /\ vm.message = Parsed.reason

\* "1ee3" typed in the float box is shown as Invalid
C21_Witness ==
  /\ Built
  /\ precision = "float"
  /\ input = <<"1", "e", "e">>
  /\ vm = [state |-> "Invalid", normalizedText |-> <<"1", "e", "e">>,
           message |-> "invalid numeric syntax"]

\* the extractor of a precision
ExtractorOf(p, value) == IF p = "float" THEN float32Bits(value) ELSE float64Bits(value)

\* C22: when the classifier returns Valid for the text, the view is Valid
\* with the value and the normalizedText of the classifier, the precision
\* asked for and the bits of the extractor of that precision applied to the
\* value; state, normalizedText and value are those of the classifier at
\* both precisions, and the bits of the two extractors are never the same.
C22_ValidView ==
  (Built /\ Parsed.kind = "Valid") =>
    /\ DOMAIN vm = {"state", "normalizedText", "value", "precision", "bits"}
    /\ vm.state = "Valid"
    /\ vm.normalizedText = Parsed.normalizedText
    /\ vm.value = Parsed.value
    /\ vm.precision = precision
    /\ vm.bits = ExtractorOf(precision, Parsed.value)
    /\ float32Bits(Parsed.value) # float64Bits(Parsed.value)

\* "0.1" in the float box: the view carries the binary32 nearest to 0.1
C22_Witness ==
  /\ Built
  /\ precision = "float"
  /\ input = <<"0", ".", "1">>
  /\ vm.state = "Valid"
  /\ vm.precision = "float"
  /\ vm.normalizedText = <<"0", ".", "1">>
  /\ vm.bits.hex = <<"3", "d", "c", "c", "c", "c", "c", "d">>

(* --------------------- the claims about the calls ----------------------- *)

\* C23: in any sequence of calls of ParseFloatingInput, buildViewModel,
\* float32Bits and float64Bits, two calls of the same function with the
\* same arguments have returned the same, whatever was called in between,
\* and a call leaves what the earlier calls returned as it was.
C23_Stateless ==
  /\ [](\A i, j \in 1..Len(calls) :
          (calls[i].fn = calls[j].fn /\ calls[i].args = calls[j].args) =>
            calls[i].returned = calls[j].returned)
  /\ [][\A i \in 1..Len(calls) : calls'[i] = calls[i]]_vars

\* "+1" is classified, then classified with allowLeadingPlus off and found
\* Invalid, then classified as at first and found Valid again
C23_Witness ==
  /\ Len(calls) = 3
  /\ calls[1].fn = "ParseFloatingInput"
  /\ calls[1].args = <<<<"+", "1">>, NoOptions>>
  /\ calls[2].fn = "ParseFloatingInput"
  /\ calls[2].args = <<<<"+", "1">>, [allowLeadingPlus |-> FALSE]>>
  /\ calls[2].returned.kind = "Invalid"
  /\ calls[3].fn = calls[1].fn /\ calls[3].args = calls[1].args
  /\ calls[3].returned.kind = "Valid"
  /\ calls[3].returned = calls[1].returned

(* ------------------ more claims about the bit extractor ----------------- *)

\* the places of the separators of a grouped text
SpacesAt(g) == {k \in 1..Len(g) : g[k] = " "}

GroupCount(g) == Cardinality(SpacesAt(g)) + 1

\* the n-th separator of a grouped text; 0 and Len(g) + 1 stand before the
\* first group and after the last
NthSpace(g, n) ==
  IF n = 0 THEN 0
  ELSE IF n > Cardinality(SpacesAt(g)) THEN Len(g) + 1
  ELSE CHOOSE k \in SpacesAt(g) : Cardinality({j \in SpacesAt(g) : j < k}) = n - 1

\* the i-th group of a grouped text
GroupAt(g, i) == SubSeq(g, NthSpace(g, i - 1) + 1, NthSpace(g, i) - 1)

\* the hex digit of a group of at most 4 binary digits read as a number
HexDigitOfGroup(grp) ==
  LowerHex[FieldValue([k \in 1..Len(grp) |-> IF grp[k] = "1" THEN 1 ELSE 0], 1, Len(grp)) + 1]

\* the hex digits of the payload are the groups of the payload, one by one
DigitsAreGroups(b) ==
  /\ b.payloadGrouped4 = b.mantissaGrouped4
  /\ Len(b.payloadHexPadded) = GroupCount(b.payloadGrouped4)
  /\ \A i \in 1..GroupCount(b.payloadGrouped4) :
       b.payloadHexPadded[i] = HexDigitOfGroup(GroupAt(b.payloadGrouped4, i))

\* C24: at both widths payloadHexPadded has as many hex digits as
\* payloadGrouped4 (which is mantissaGrouped4) has groups, and its i-th
\* digit is the value of the i-th group read as a binary number.
C24_GroupsAreHexDigits ==
  /\ f32 # NoBits => DigitsAreGroups(f32)
  /\ f64 # NoBits => DigitsAreGroups(f64)
  /\ (Built /\ vm.state = "Valid") => DigitsAreGroups(vm.bits)


(* --------------------- the claims about the webview -------------------- *)

\* C25: with the default options, every character of the trimmed text of
\* an input that the classifier finds Valid or Incomplete is a character
\* the filter of the webview lets through.
C25_FilterSuperset ==
  (Returned /\ opts = defaultOptions /\ result.kind \in {"Valid", "Incomplete"}) =>
    \A i \in 1..Len(Stripped(input)) : allowedChar(Stripped(input)[i])

\* "-Infinity" is Valid and needs the letters t and y
C25_Witness ==
  /\ Returned
  /\ opts = defaultOptions
  /\ input = <<"-", "I", "n", "f", "i", "n", "i", "t", "y">>
  /\ result.kind = "Valid"

\* the message is an object with type "update" and a precision of the viewer
IsUpdate(msg) ==
  /\ msg.js = "object"
  /\ msg.type = "update"
  /\ msg.precision \in {"float", "double"}

\* the text an update carries: its text when that is a string, or ""
TextOfUpdate(msg) == IF msg.text.js = "string" THEN msg.text.chars ELSE <<>>

\* C26: when the extension takes a message that is an object with type
\* "update" and precision "float" or "double", it posts exactly one render
\* message with that precision and the view model of the text at that
\* precision, a text that is not a string counting as ""; when it takes any
\* other message it posts nothing.
C26_OneRenderPerUpdate ==
  [][(toExtension # <<>> /\ toExtension' = Tail(toExtension)) =>
       IF IsUpdate(Head(toExtension))
         THEN toWebview' =
                Append(toWebview,
                       [type |-> "render", precision |-> Head(toExtension).precision,
                        vm |-> buildViewModel(TextOfUpdate(Head(toExtension)),
                                              Head(toExtension).precision)])
         ELSE toWebview' = toWebview]_vars

\* the float box holds "1" and every message was taken, yet the last render
\* posted for the float pane is that of the empty text: the answer to an
\* update whose text was not a string
C26_Witness ==
  /\ toExtension = <<>>
  /\ floatInput = <<"1">>
  /\ toWebview # <<>>
  /\ toWebview[Len(toWebview)] =
       [type |-> "render", precision |-> "float",
        vm |-> [state |-> "Incomplete", normalizedText |-> <<>>, message |-> "empty"]]

\* C27: once every message has been taken, each pane shows the rendering of
\* the view model of the text of its own box at its own precision; a render
\* message of one precision leaves the other pane as it was; and the first
\* content of each pane is Incomplete with the reason "empty".
C27_PanesFollowBoxes ==
  /\ []((toExtension = <<>> /\ toWebview = <<>>) =>
          /\ floatOut = renderVm(buildViewModel(floatInput, "float"))
          /\ doubleOut = renderVm(buildViewModel(doubleInput, "double")))
  /\ [][(toWebview # <<>> /\ toWebview' = Tail(toWebview)) =>
          /\ Head(toWebview).precision = "float" => doubleOut' = doubleOut
          /\ Head(toWebview).precision = "double" => floatOut' = floatOut]_vars
  /\ [][/\ (floatOut = NoOutput /\ floatOut' # NoOutput) =>
             floatOut' = [shows |-> "Incomplete", reason |-> "empty"]
        /\ (doubleOut = NoOutput /\ doubleOut' # NoOutput) =>
             doubleOut' = [shows |-> "Incomplete", reason |-> "empty"]]_vars

\* "1" in the float box and "-" in the double box, all messages taken
C27_Witness ==
  /\ toExtension = <<>>
  /\ toWebview = <<>>
  /\ floatInput = <<"1">>
  /\ doubleInput = <<"-">>
  /\ floatOut.shows = "Valid"
  /\ floatOut.hexGrouped = <<"3", "f", " ", "8", "0", " ", "0", "0", " ", "0", "0">>
  /\ doubleOut = [shows |-> "Incomplete", reason |-> "sign only"]

(* -------------------- more claims about the view ----------------------- *)

\* C28: buildViewModel classifies with the default options: the message of
\* every Invalid view is "invalid numeric syntax" (never "leading plus is not
\* allowed", "infinity is not allowed" or "parsed to NaN"), and the
\* overflowing literals "1e400" and "+1e999" give a Valid view whose bits
\* have the kind Infinity.
C28_DefaultOptionsOnly ==
  Built =>
    /\ vm.state = "Invalid" => vm.message = "invalid numeric syntax"
    /\ input \in {<<"1", "e", "4", "0", "0">>, <<"+", "1", "e", "9", "9", "9">>} =>
         /\ vm.state = "Valid"
         /\ vm.bits.kind = "Infinity"
         /\ vm.bits.signBit = 0

\* "1e400" at the float precision: Valid, positive infinity
C28_Witness ==
  /\ Built
  /\ precision = "float"
  /\ input = <<"1", "e", "4", "0", "0">>
  /\ vm.state = "Valid"
  /\ vm.normalizedText = <<"1", "e", "4", "0", "0">>
  /\ vm.bits.kind = "Infinity"
  /\ vm.bits.hex = <<"7", "f", "8", "0", "0", "0", "0", "0">>

(* ------------------ more claims about the classifier ------------------- *)

\* C29: whatever the text and the options, ParseFloatingInput never returns
\* the reason "incomplete Inf token"; a text whose letters are a prefix of
\* "inf" shorter than 3 characters is returned as Incomplete with the reason
\* "incomplete Infinity token" when the tokens of infinity are matched
\* without regard to case.
C29_NoIncompleteInfToken ==
  Returned =>
    /\ result.kind \in {"Incomplete", "Invalid"} => result.reason # "incomplete Inf token"
    /\ (/\ opts.allowInfinitySynonyms
        /\ opts.caseInsensitiveSpecials
        /\ opts.allowLeadingPlus
        /\ Stripped(input) \in {<<"i">>, <<"i", "n">>, <<"-", "i">>, <<"+", "i", "n">>}) =>
         /\ result.kind = "Incomplete"
         /\ result.reason = "incomplete Infinity token"

\* "in" with the default options
C29_Witness ==
  /\ Returned
  /\ opts = defaultOptions
  /\ input = <<"i", "n">>
  /\ result = [kind |-> "Incomplete", reason |-> "incomplete Infinity token",
               normalizedText |-> <<"i", "n">>]

\* the text starts with "-"
StartsWithMinus(text) == Len(text) > 0 /\ text[1] = "-"

\* C30: in a Valid view at either precision whose value is not NaN, the sign
\* bit of the bits is 1 exactly when the normalized text starts with "-"
\* (for "-0", for a negative literal that underflows to zero and for
\* "-Infinity" as well); in the view of a NaN the normalized text is "NaN"
\* with the sign that was typed before it, and the sign bit is 0.
C30_SignBitFollowsText ==
  (Built /\ vm.state = "Valid") =>
    IF vm.value.cls = "NaN"
      THEN /\ vm.bits.signBit = 0
           /\ vm.bits.kind = "NaN"
           /\ LET t == Stripped(input)
              IN  vm.normalizedText =
                    (IF t[1] \in {"+", "-"} THEN <<t[1]>> ELSE <<>>) \o <<"N", "a", "N">>
      ELSE vm.bits.signBit = (IF StartsWithMinus(vm.normalizedText) THEN 1 ELSE 0)

\* a negative literal below half the least subnormal: the double is -0
C30_Witness ==
  /\ Built
  /\ precision = "double"
  /\ input = <<"-", "2", ".", "4", "7", "e", "-", "3", "2", "4">>
  /\ vm.state = "Valid"
  /\ vm.normalizedText = input
  /\ vm.bits.kind = "Zero"
  /\ vm.bits.signBit = 1

====
